---------------------------- MODULE Spec2Model ----------------------------
(***************************************************************************)
(* Model of the streaming response pipeline of the HelpingAI JS SDK        *)
(* (src/src/types.ts): the tag-aware content filter                        *)
(* ChatCompletions.createFilteredStreamGenerator and the SSE framer        *)
(* ChatCompletions.handleStreamResponse, and of its error path:            *)
(* BaseClient.request, BaseClient.handleErrorResponse and the error        *)
(* classes (src/src/index.ts).                                             *)
(*                                                                         *)
(* Text is a sequence of one-character strings, so that slicing, prefix    *)
(* tests and per-character scanning are computed as the code computes      *)
(* them.  An absent (undefined) JavaScript value is None or NoContent.     *)
(***************************************************************************)
EXTENDS Integers, Sequences, FiniteSets, TLC

VARIABLES
    text,       \* SpecText: the whole delta.content text of a single-choice stream
    pos,        \* SpecText: how many characters of text have been delivered
    emittedAt,  \* SpecText: for each emitted character, its position in text
    fstate,     \* locals of createFilteredStreamGenerator (state, buffer, counters)
    inChunks,   \* chunks the filter has pulled from its input iterable
    outChunks,  \* chunks the filter has yielded
    visible,    \* SpecText: the consumer's concatenation of the emitted delta.content
    carried,    \* SpecText: some fragment ended inside a possible tag (text was carried over)
    ended,      \* the filter's input iterable is exhausted, the generator returned
    wire,       \* SpecStream: the whole text of the response body
    rpos,       \* SpecStream: how many characters reader.read() has delivered
    nreads,     \* SpecStream: how many reads have delivered data
    lines,      \* SpecStream: the lines of the current read not yet looked at
    spc,        \* SpecStream: where handleStreamResponse stands
    fpc,        \* SpecStream: where createFilteredStreamGenerator stands
    hideThink,  \* SpecStream: create() wrapped the stream in the filter
    readerHeld, \* SpecStream: the reader's lock is acquired and not released
    framed,     \* SpecStream: the chunks handleStreamResponse has yielded
    decoderPending, \* SpecStream: bytes the TextDecoder holds back
    exitKind,   \* SpecStream: how handleStreamResponse came to its end
    thrown,     \* SpecStream: the error the iteration rejected with, and its cause
    rqpc,       \* SpecRequest: where request() stands
    reqStream,  \* SpecRequest: the stream option of the request
    response,   \* SpecRequest: the response fetch resolved with
    classified, \* SpecRequest: the error handleErrorResponse threw
    result,     \* SpecRequest: how the promise of request() settled
    completion, \* SpecCompletion: the message content filterCompletion put in place
    streams,    \* SpecTwoStreams: for each of two streams, its body and its generators
    client,     \* SpecClient: the options and environment of `new HAI(options)` and its outcome
    fetches,    \* SpecRequest: how many times request() has invoked fetch
    listed      \* SpecRequest: the promise of Models.list() over the request

textVars   == <<text, pos, emittedAt, visible, carried>>
streamVars == <<wire, rpos, nreads, lines, spc, fpc, hideThink, readerHeld,
                framed, decoderPending, exitKind, thrown>>

callVars   == <<fetches, listed>>
reqVars    == <<rqpc, reqStream, response, classified, result, callVars>>
sideVars   == <<completion, streams, client>>
restVars   == <<textVars, fstate, inChunks, outChunks, ended, streamVars, sideVars>>

vars == <<text, pos, emittedAt, visible, carried, fstate, inChunks, outChunks,
          ended, wire, rpos, nreads, lines, spc, fpc, hideThink, readerHeld,
          framed, decoderPending, exitKind, thrown, rqpc, reqStream, response,
          classified, result, completion, streams, client, fetches, listed>>

\* undefined, for a field holding an atomic value and for a field holding text
None      == "undefined"
NoContent == << "undefined" >>

-----------------------------------------------------------------------------
(* Bounds of the exploration *)

MaxTokens == 3      \* SpecText: a text is a concatenation of at most this many tokens
MaxChunks == 3      \* SpecChunks: chunks fed to the filter
MaxReads  == 2      \* SpecStream: reads that deliver data
MaxLines  == 2      \* SpecTwoStreams: lines in the body of each stream

-----------------------------------------------------------------------------
(* Strings *)

StartsWith(s, p) == Len(p) <= Len(s) /\ SubSeq(s, 1, Len(p)) = p

Slice(s, n) == SubSeq(s, n + 1, Len(s))

\* JavaScript /\s/ on the characters the model uses
IsSpaceChar(c) == c \in {" ", "\n", "\t", "\r"}

\* JavaScript truthiness of an optional string
Truthy(s) == s # NoContent /\ s # <<>>

\* line.trim()
RECURSIVE TrimStart(_)
TrimStart(s) ==
    IF s # <<>> /\ IsSpaceChar(Head(s)) THEN TrimStart(Tail(s)) ELSE s

RECURSIVE TrimEnd(_)
TrimEnd(s) ==
    IF s # <<>> /\ IsSpaceChar(s[Len(s)])
    THEN TrimEnd(SubSeq(s, 1, Len(s) - 1)) ELSE s

Trim(s) == TrimEnd(TrimStart(s))

-----------------------------------------------------------------------------
(* Strings of the error path *)

UPPER == <<"A", "B", "C", "D", "E", "F", "G", "H", "I", "J", "K", "L", "M", "N",
      "O", "P", "Q", "R", "S", "T", "U", "V", "W", "X", "Y", "Z">>
LOWER == <<"a", "b", "c", "d", "e", "f", "g", "h", "i", "j", "k", "l", "m", "n",
      "o", "p", "q", "r", "s", "t", "u", "v", "w", "x", "y", "z">>
DIGITS == <<"0", "1", "2", "3", "4", "5", "6", "7", "8", "9">>

\* s.toLowerCase()
LowerChar(c) ==
    IF \E i \in 1 .. Len(UPPER) : UPPER[i] = c
    THEN LOWER[CHOOSE i \in 1 .. Len(UPPER) : UPPER[i] = c]
    ELSE c

ToLowerCase(s) == [ i \in 1 .. Len(s) |-> LowerChar(s[i]) ]

\* key.toLowerCase() left out
ToLowerCaseAsIs(s) == s

KeyToLowerCase(s) == ToLowerCase(s)

\* s.includes(sub)
Includes(s, sub) ==
    \E i \in 0 .. (Len(s) - Len(sub)) : SubSeq(s, i + 1, i + Len(sub)) = sub

\* An optional number: undefined, a number, or NaN
Undefined == [ kind |-> "undefined", value |-> 0 ]
NaN       == [ kind |-> "NaN", value |-> 0 ]
Num(n)    == [ kind |-> "number", value |-> n ]

IsDigit(c) == \E i \in 1 .. Len(DIGITS) : DIGITS[i] = c
DigitValue(c) == (CHOOSE i \in 1 .. Len(DIGITS) : DIGITS[i] = c) - 1

\* The value of the longest run of decimal digits s starts with at i
RECURSIVE DigitsFrom(_, _, _)
DigitsFrom(s, i, acc) ==
    IF i <= Len(s) /\ IsDigit(s[i])
    THEN DigitsFrom(s, i + 1, acc * 10 + DigitValue(s[i]))
    ELSE acc

\* parseInt(s, 10): leading white space is skipped, then an optional sign,
\* then the longest run of digits; NaN when there is no digit there.  It
\* never throws.
ParseIntSigned(t) ==
    IF t # <<>> /\ Head(t) \in {"+", "-"}
    THEN IF Len(t) >= 2 /\ IsDigit(t[2])
         THEN Num((IF Head(t) = "-" THEN -1 ELSE 1) * DigitsFrom(t, 2, 0))
         ELSE NaN
    ELSE IF t # <<>> /\ IsDigit(Head(t)) THEN Num(DigitsFrom(t, 1, 0))
    ELSE NaN

ParseInt(s) == ParseIntSigned(TrimStart(s))

\* errorMessage.match(/'([^']*)'/): the leftmost quote that has another
\* quote after it, and the text up to the next quote
QuoteAt(s) == { i \in 1 .. Len(s) : s[i] = "'" }

Least(S) == CHOOSE i \in S : \A j \in S : i <= j
Greatest(S) == CHOOSE i \in S : \A j \in S : j <= i

\* the group of /'(.*)'/ : up to the last quote
MatchQuotedGreedy(s) ==
    IF Cardinality(QuoteAt(s)) < 2 THEN [ matched |-> FALSE, group |-> <<>> ]
    ELSE [ matched |-> TRUE,
           group |-> SubSeq(s, Least(QuoteAt(s)) + 1, Greatest(QuoteAt(s)) - 1) ]

MatchQuoted(s) ==
    IF Cardinality(QuoteAt(s)) < 2 THEN [ matched |-> FALSE, group |-> <<>> ]
    ELSE [ matched |-> TRUE,
           group |-> SubSeq(s, Least(QuoteAt(s)) + 1,
                            Least(QuoteAt(s) \ { Least(QuoteAt(s)) }) - 1) ]

STR_model           == <<"m", "o", "d", "e", "l">>
STR_content_filter  == <<"c", "o", "n", "t", "e", "n", "t", "_", "f", "i", "l", "t", "e", "r">>
STR_retry_after     == <<"r", "e", "t", "r", "y", "-", "a", "f", "t", "e", "r">>
STR_UnknownModel    == <<"U", "n", "k", "n", "o", "w", "n", " ", "m", "o", "d", "e", "l">>
STR_UnknownError    == <<"U", "n", "k", "n", "o", "w", "n", " ", "e", "r", "r", "o", "r">>
STR_UnknownOccurred == <<"U", "n", "k", "n", "o", "w", "n", " ", "e", "r", "r", "o", "r", " ",
      "o", "c", "c", "u", "r", "r", "e", "d">>
STR_InvalidAPIKey ==
    <<"I", "n", "v", "a", "l", "i", "d", " ", "A", "P", "I", " ", "k", "e",
      "y", ".", " ", "C", "h", "e", "c", "k", " ", "y", "o", "u", "r", " ",
      "A", "P", "I", " ", "k", "e", "y", " ", "a", "t", " ", "h", "t", "t",
      "p", "s", ":", "/", "/", "h", "e", "l", "p", "i", "n", "g", "a", "i",
      ".", "c", "o", "/", "d", "a", "s", "h", "b", "o", "a", "r", "d">>
STR_ModelQuote == <<"M", "o", "d", "e", "l", " ", "'">>
STR_NotFound ==
    <<"'", " ", "n", "o", "t", " ", "f", "o", "u", "n", "d", ".", " ", "A",
      "v", "a", "i", "l", "a", "b", "l", "e", " ", "m", "o", "d", "e", "l",
      "s", " ", "c", "a", "n", " ", "b", "e", " ", "f", "o", "u", "n", "d",
      " ", "a", "t", " ", "h", "t", "t", "p", "s", ":", "/", "/", "a", "p",
      "i", ".", "h", "e", "l", "p", "i", "n", "g", "a", "i", ".", "c", "o",
      "/", "v", "1", "/", "m", "o", "d", "e", "l", "s">>
STR_TooManyRequests == <<"T", "o", "o", " ", "m", "a", "n", "y", " ", "r", "e", "q", "u", "e",
      "s", "t", "s">>
STR_ServiceUnavailable == <<"S", "e", "r", "v", "i", "c", "e", " ", "t", "e", "m", "p", "o", "r",
      "a", "r", "i", "l", "y", " ", "u", "n", "a", "v", "a", "i", "l", "a",
      "b", "l", "e">>
STR_TimedOut        == <<"R", "e", "q", "u", "e", "s", "t", " ", "t", "i", "m", "e", "d", " ",
      "o", "u", "t">>
STR_ErrorConnecting == <<"E", "r", "r", "o", "r", " ", "c", "o", "n", "n", "e", "c", "t", "i",
      "n", "g", " ", "t", "o", " ", "H", "A", "I", " ", "A", "P", "I", ":",
      " ">>
STR_ErrorCommunicating ==
    <<"E", "r", "r", "o", "r", " ", "c", "o", "m", "m", "u", "n", "i", "c",
      "a", "t", "i", "n", "g", " ", "w", "i", "t", "h", " ", "H", "A", "I",
      " ", "A", "P", "I", ":", " ">>

-----------------------------------------------------------------------------
(* The error classes (src/src/index.ts) *)

\* response headers as the code holds them: absent, or the entries
\* <<key, value>> of an object in insertion order
NoHeaders == [ present |-> FALSE, entries |-> << >> ]

\* An error object: the fields the classes declare, undefined where a class
\* does not set one (shouldRetry: FALSE).  hai: instanceof HAIError
MkError(name, hai, message, statusCode, headers) ==
    [ name |-> name, hai |-> hai, message |-> message,
      statusCode |-> statusCode, headers |-> headers,
      param |-> NoContent, code |-> None, type |-> NoContent,
      retryAfter |-> Undefined, shouldRetry |-> FALSE ]

NoError == MkError(None, FALSE, NoContent, Undefined, NoHeaders)

HAIError(message) == MkError("HAIError", TRUE, message, Undefined, NoHeaders)

InvalidAPIKeyError(statusCode, headers) ==
    MkError("InvalidAPIKeyError", TRUE, STR_InvalidAPIKey, statusCode, headers)

InvalidRequestError(message, param, code, statusCode, headers) ==
    [ MkError("InvalidRequestError", TRUE, message, statusCode, headers)
        EXCEPT !.param = param, !.code = code ]

InvalidModelError(model, statusCode, headers) ==
    [ InvalidRequestError(STR_ModelQuote \o model \o STR_NotFound,
                          STR_model, None, statusCode, headers)
        EXCEPT !.name = "InvalidModelError" ]

HasKey(headers, key) ==
    \E n \in 1 .. Len(headers.entries) : headers.entries[n][1] = key

Get(headers, key) ==
    headers.entries[CHOOSE n \in 1 .. Len(headers.entries) :
                        headers.entries[n][1] = key][2]

\* `'retry-after' in this.headers` and parseInt of its value; parseInt does
\* not throw, so the catch branch is never taken
getRetryAfterFromHeaders(headers) ==
    IF headers.present /\ HasKey(headers, STR_retry_after)
    THEN ParseInt(Get(headers, STR_retry_after))
    ELSE Undefined

RateLimitError(message, statusCode, headers) ==
    [ MkError("RateLimitError", TRUE, message, statusCode, headers)
        EXCEPT !.retryAfter = getRetryAfterFromHeaders(headers) ]

TooManyRequestsError(statusCode, headers) ==
    [ RateLimitError(STR_TooManyRequests, statusCode, headers)
        EXCEPT !.name = "TooManyRequestsError" ]

ServiceUnavailableError(statusCode, headers) ==
    MkError("ServiceUnavailableError", TRUE, STR_ServiceUnavailable,
            statusCode, headers)

TimeoutError(message) ==
    MkError("TimeoutError", TRUE, message, Undefined, NoHeaders)

APIConnectionError(message, shouldRetry) ==
    [ MkError("APIConnectionError", TRUE, message, Undefined, NoHeaders)
        EXCEPT !.shouldRetry = shouldRetry ]

APIError(message, code, type, statusCode, headers) ==
    [ MkError("APIError", TRUE, message, statusCode, headers)
        EXCEPT !.code = code, !.type = type ]

ServerError(message, statusCode, headers) ==
    [ APIError(message, "server_error", NoContent, statusCode, headers)
        EXCEPT !.name = "ServerError" ]

ContentFilterError(message, statusCode, headers) ==
    [ InvalidRequestError(message, NoContent, "content_filter",
                          statusCode, headers)
        EXCEPT !.name = "ContentFilterError" ]

-----------------------------------------------------------------------------
(* BaseClient.handleErrorResponse and BaseClient.extractHeaders *)

\* headers[key.toLowerCase()] = value: an existing key keeps its place
Put(entries, key, value) ==
    IF \E n \in 1 .. Len(entries) : entries[n][1] = key
    THEN [ n \in 1 .. Len(entries) |->
             IF entries[n][1] = key THEN <<key, value>> ELSE entries[n] ]
    ELSE Append(entries, <<key, value>>)

RECURSIVE PutAll(_, _)
PutAll(raw, acc) ==
    IF raw = << >> THEN acc
    ELSE PutAll(Tail(raw), Put(acc, KeyToLowerCase(Head(raw)[1]), Head(raw)[2]))

\* extractHeaders(response): {} when response.headers is missing
extractHeaders(resp) ==
    [ present |-> TRUE,
      entries |-> IF resp.headers.present
                  THEN PutAll(resp.headers.entries, << >>) ELSE << >> ]

\* s || dflt for a string
OrElse(s, dflt) == IF Truthy(s) THEN s ELSE dflt

\* errorData: what `await response.json()` gave, or the stand-in envelope
\* when it rejected
ErrorDataOf(resp) ==
    IF resp.body.json THEN resp.body
    ELSE [ json |-> TRUE, shape |-> "nested", message |-> STR_UnknownOccurred,
           type |-> NoContent, code |-> None ]

\* errorMessage, errorType, errorCode from the three shapes of the envelope
EnvelopeFields(errorData) ==
    IF errorData.shape = "nested"
    THEN [ errorMessage |-> OrElse(errorData.message, STR_UnknownError),
           errorType |-> errorData.type, errorCode |-> errorData.code ]
    ELSE IF errorData.shape = "string"
    THEN [ errorMessage |-> errorData.message,
           errorType |-> NoContent, errorCode |-> None ]
    ELSE [ errorMessage |-> OrElse(errorData.message, STR_UnknownError),
           errorType |-> errorData.type, errorCode |-> errorData.code ]

ModelNameOf(match) == IF match.matched THEN match.group ELSE STR_UnknownModel

MentionsContentFilter(errorType) ==
    Truthy(errorType) /\ Includes(ToLowerCase(errorType), STR_content_filter)

\* the if / else-if chain with the tests for 503 and for >= 500 exchanged
ThrowForServerFirst(status, headers, f) ==
    IF status = 401 THEN InvalidAPIKeyError(Num(status), headers)
    ELSE IF status = 400
    THEN IF Includes(ToLowerCase(f.errorMessage), STR_model)
         THEN InvalidModelError(ModelNameOf(MatchQuoted(f.errorMessage)),
                                Num(status), headers)
         ELSE InvalidRequestError(f.errorMessage, NoContent, None,
                                  Num(status), headers)
    ELSE IF status = 429 THEN TooManyRequestsError(Num(status), headers)
    ELSE IF status >= 500 THEN ServerError(f.errorMessage, Num(status), headers)
    ELSE IF status = 503 THEN ServiceUnavailableError(Num(status), headers)
    ELSE IF MentionsContentFilter(f.errorType)
    THEN ContentFilterError(f.errorMessage, Num(status), headers)
    ELSE APIError(f.errorMessage, f.errorCode, f.errorType, Num(status), headers)

\* the if / else-if chain over status (f: the fields of the envelope)
ThrowFor(status, headers, f) ==
    IF status = 401 THEN InvalidAPIKeyError(Num(status), headers)
    ELSE IF status = 400
    THEN IF Includes(ToLowerCase(f.errorMessage), STR_model)
         THEN InvalidModelError(ModelNameOf(MatchQuoted(f.errorMessage)),
                                Num(status), headers)
         ELSE InvalidRequestError(f.errorMessage, NoContent, None,
                                  Num(status), headers)
    ELSE IF status = 429 THEN TooManyRequestsError(Num(status), headers)
    ELSE IF status = 503 THEN ServiceUnavailableError(Num(status), headers)
    ELSE IF status >= 500 THEN ServerError(f.errorMessage, Num(status), headers)
    ELSE IF MentionsContentFilter(f.errorType)
    THEN ContentFilterError(f.errorMessage, Num(status), headers)
    ELSE APIError(f.errorMessage, f.errorCode, f.errorType, Num(status), headers)

STR_CannotRead ==
    <<"C", "a", "n", "n", "o", "t", " ", "r", "e", "a", "d", " ", "p", "r",
      "o", "p", "e", "r", "t", "i", "e", "s", " ", "o", "f", " ", "n", "u",
      "l", "l", " ", "(", "r", "e", "a", "d", "i", "n", "g", " ", "'", "e",
      "r", "r", "o", "r", "'", ")">>

\* `typeof errorData.error` when response.json() gave null: the property
\* access throws a TypeError, outside the try block around response.json()
TypeErrorOfNull == MkError("TypeError", FALSE, STR_CannotRead, Undefined, NoHeaders)

\* Whether deriving errorMessage, errorType and errorCode throws
DerivingThrows(errorData) == errorData.shape = "null"

\* The error handleErrorResponse throws for a response
handleErrorResponse(resp) ==
    IF DerivingThrows(ErrorDataOf(resp)) THEN TypeErrorOfNull
    ELSE ThrowFor(resp.status, extractHeaders(resp),
                  EnvelopeFields(ErrorDataOf(resp)))

\* The variables of the request specification, at rest in the others
NoResponse ==
    [ status |-> 0, headers |-> NoHeaders,
      body |-> [ json |-> FALSE, shape |-> "none", message |-> NoContent,
                 type |-> NoContent, code |-> None ] ]

\* No completion has been filtered, no pair of streams is under way
NoCompletion == [ done |-> FALSE, content |-> NoContent ]
NoStreams    == << >>
NoClient     == [ pc |-> "none" ]
NoListed     == [ state |-> "pending", models |-> "undefined", error |-> "undefined" ]

SideIdle ==
    /\ completion = NoCompletion
    /\ streams = NoStreams
    /\ client = NoClient

RequestIdle ==
    /\ SideIdle
    /\ rqpc = "idle"
    /\ reqStream = FALSE
    /\ response = NoResponse
    /\ classified = NoError
    /\ result = [ state |-> "pending", error |-> NoError ]
    /\ fetches = 0
    /\ listed = NoListed

-----------------------------------------------------------------------------
(* The four tags and the lengths the code advances by *)

THINK_OPEN  == <<"<", "t", "h", "i", "n", "k", ">">>
THINK_CLOSE == <<"<", "/", "t", "h", "i", "n", "k", ">">>
SER_OPEN    == <<"<", "s", "e", "r", ">">>
SER_CLOSE   == <<"<", "/", "s", "e", "r", ">">>

ThinkOpenSkip  == 7
ThinkCloseSkipAsOpen == ThinkOpenSkip
ThinkCloseSkip == 8
SerOpenSkip    == 5
SerCloseSkip   == 6
NewlineCapLoose == 2 + 1
NewlineCap     == 2

-----------------------------------------------------------------------------
(* createFilteredStreamGenerator: the scan of the carry-over buffer *)

InitFilterState ==
    [ isReasoning |-> FALSE, isSer |-> FALSE, buffer |-> <<>>,
      consecutiveNewlines |-> 0, lastCharWasSpace |-> FALSE,
      streamStarted |-> FALSE ]

\* '</think>'.startsWith(remaining): the close tag may still be arriving
PartialThinkCloseNever(remaining) == FALSE
PartialThinkClose(remaining) == StartsWith(THINK_CLOSE, remaining)

\* '</ser>'.startsWith(remaining)
PartialSerClose(remaining) == StartsWith(SER_CLOSE, remaining)

\* '<think>'.startsWith(remaining) || '<ser>'.startsWith(remaining)
PartialOpenNever(remaining) == FALSE
PartialOpen(remaining) ==
    StartsWith(THINK_OPEN, remaining) \/ StartsWith(SER_OPEN, remaining)

\* lastCharWasSpace after a close tag has been consumed
LastCharWasSpaceAfterClose == TRUE

\* !streamStarted && /\s/.test(char): whitespace before the first visible
\* character of the stream is passed over
SuppressLeadingNever(started, char) == FALSE
SuppressLeading(started, char) == ~started /\ IsSpaceChar(char)

\* One ordinary character through the whitespace rules.  st is the loop's
\* state; outputAt records, beside outputContent, the buffer offset of the
\* character each emitted character stands for.
EmitChar(st) ==
    LET char == st.buffer[st.processedLen + 1]
        at   == st.processedLen
    IN  IF SuppressLeading(st.streamStarted, char)
        THEN [st EXCEPT !.processedLen = @ + 1]
        ELSE LET s == [st EXCEPT !.streamStarted = TRUE] IN
             IF char = "\n"
             THEN [s EXCEPT
                     !.consecutiveNewlines = @ + 1,
                     !.outputContent =
                         IF s.consecutiveNewlines + 1 <= NewlineCap
                         THEN Append(@, char) ELSE @,
                     !.outputAt =
                         IF s.consecutiveNewlines + 1 <= NewlineCap
                         THEN Append(@, at) ELSE @,
                     !.lastCharWasSpace = FALSE,
                     !.processedLen = @ + 1]
             ELSE IF IsSpaceChar(char)
             THEN [s EXCEPT
                     !.outputContent =
                         IF ~s.lastCharWasSpace THEN Append(@, " ") ELSE @,
                     !.outputAt =
                         IF ~s.lastCharWasSpace THEN Append(@, at) ELSE @,
                     !.lastCharWasSpace = TRUE,
                     !.processedLen = @ + 1]
             ELSE [s EXCEPT
                     !.consecutiveNewlines = 0,
                     !.lastCharWasSpace = FALSE,
                     !.outputContent = Append(@, char),
                     !.outputAt = Append(@, at),
                     !.processedLen = @ + 1]

\* if (state.isReasoning): the first test of the loop body, before any open
\* tag is looked for (the variant lets a <ser> through to the open-tag tests)
InReasoningUnlessSerOpen(st) ==
    st.isReasoning /\ ~StartsWith(Slice(st.buffer, st.processedLen), SER_OPEN)
InReasoning(st) == st.isReasoning

\* while (processedLen < buffer.length) { ... }
RECURSIVE ScanLoop(_)
ScanLoop(st) ==
    IF st.processedLen >= Len(st.buffer) THEN st
    ELSE
    LET remaining == Slice(st.buffer, st.processedLen) IN
    IF InReasoning(st) THEN
        IF StartsWith(remaining, THINK_CLOSE)
        THEN ScanLoop([st EXCEPT !.isReasoning = FALSE,
                                 !.processedLen = @ + ThinkCloseSkip,
                                 !.lastCharWasSpace = LastCharWasSpaceAfterClose])
        ELSE IF PartialThinkClose(remaining) THEN st
        ELSE ScanLoop([st EXCEPT !.processedLen = @ + 1])
    ELSE IF st.isSer THEN
        IF StartsWith(remaining, SER_CLOSE)
        THEN ScanLoop([st EXCEPT !.isSer = FALSE,
                                 !.processedLen = @ + SerCloseSkip,
                                 !.lastCharWasSpace = LastCharWasSpaceAfterClose])
        ELSE IF PartialSerClose(remaining) THEN st
        ELSE ScanLoop([st EXCEPT !.processedLen = @ + 1])
    ELSE IF StartsWith(remaining, THINK_OPEN)
    THEN ScanLoop([st EXCEPT !.isReasoning = TRUE,
                             !.processedLen = @ + ThinkOpenSkip])
    ELSE IF StartsWith(remaining, SER_OPEN)
    THEN ScanLoop([st EXCEPT !.isSer = TRUE,
                             !.processedLen = @ + SerOpenSkip])
    ELSE IF PartialOpen(remaining) THEN st
    ELSE ScanLoop(EmitChar(st))

\* buffer += content; the scan; buffer = buffer.slice(processedLen).
\* Gives the new generator locals, the outputContent of this choice and
\* (outputAt) the offsets of its characters counted from the start of the
\* old carry-over buffer.
CarryOverWhole(buffer, processedLen) == buffer
CarryOver(buffer, processedLen) == Slice(buffer, processedLen)

AfterScan(st) ==
    [ fs |-> [ isReasoning |-> st.isReasoning, isSer |-> st.isSer,
               buffer |-> CarryOver(st.buffer, st.processedLen),
               consecutiveNewlines |-> st.consecutiveNewlines,
               lastCharWasSpace |-> st.lastCharWasSpace,
               streamStarted |-> st.streamStarted ],
      outputContent |-> st.outputContent,
      outputAt |-> st.outputAt ]

FilterContent(fs, content) ==
    AfterScan(ScanLoop([ isReasoning |-> fs.isReasoning, isSer |-> fs.isSer,
                         buffer |-> fs.buffer \o content,
                         processedLen |-> 0,
                         outputContent |-> <<>>, outputAt |-> <<>>,
                         consecutiveNewlines |-> fs.consecutiveNewlines,
                         lastCharWasSpace |-> fs.lastCharWasSpace,
                         streamStarted |-> fs.streamStarted ]))

-----------------------------------------------------------------------------
(* createFilteredStreamGenerator: choices and chunks *)

\* A Choice as handleStreamResponse builds it (delta is always an object);
\* the delta's fields are kept flat.
MkChoice(index, content, role, finish_reason) ==
    [ index |-> index, content |-> content, role |-> role,
      function_call |-> None, tool_calls |-> None,
      finish_reason |-> finish_reason, logprobs |-> None ]

MkChunk(id, choices) ==
    [ id |-> id, created |-> 0, model |-> "m", system_fingerprint |-> None,
      choices |-> choices ]

\* else if (choice.finish_reason): a choice whose text filtered to nothing
\* is still pushed when it carries the terminal signal
KeepsFinishOnlyNever(choice) == FALSE
KeepsFinishOnly(choice) == choice.finish_reason # None

\* PushFiltered with delta.tool_calls left out of the copy
PushFilteredNoToolCalls(choice, r) ==
    [ fs |-> r.fs,
      pushed |->
          IF r.outputContent # <<>>
          THEN << [choice EXCEPT !.content = r.outputContent, !.tool_calls = None] >>
          ELSE IF choice.finish_reason # None
          THEN << [choice EXCEPT !.content = NoContent, !.tool_calls = None] >>
          ELSE << >>,
      outputAt |-> r.outputAt ]

\* Neither branch of `if (outputContent) ... else if (choice.finish_reason)`
\* is taken: nothing is pushed for the choice, whatever else its delta
\* carries (the variant pushes a choice that carries a role or a call)
OmittedUnlessMetadata(choice) ==
    IF choice.role # None \/ choice.tool_calls # None \/ choice.function_call # None
    THEN << [choice EXCEPT !.content = NoContent] >>
    ELSE << >>
Omitted(choice) == << >>

\* What is pushed on newChoices for a choice with content, r being the
\* result of the scan: the choice with the filtered text, the choice without
\* text when it carries a finish_reason, or nothing.
PushFiltered(choice, r) ==
    [ fs |-> r.fs,
      pushed |->
          IF r.outputContent # <<>>
          THEN << [choice EXCEPT !.content = r.outputContent] >>
          ELSE IF KeepsFinishOnly(choice)
          THEN << [choice EXCEPT !.content = NoContent] >>
          ELSE Omitted(choice),
      outputAt |-> r.outputAt ]

\* FilterChoice passing a choice without content on only outside a block
FilterChoiceDropInBlock(fs, choice) ==
    IF Truthy(choice.content)
    THEN PushFiltered(choice, FilterContent(fs, choice.content))
    ELSE [ fs |-> fs,
           pushed |-> IF fs.isReasoning \/ fs.isSer THEN << >> ELSE <<choice>>,
           outputAt |-> <<>> ]

\* The body of `for (const choice of chunk.choices)` for one choice:
\* the new locals and what is pushed on newChoices (nothing or one choice).
FilterChoice(fs, choice) ==
    IF Truthy(choice.content)
    THEN PushFiltered(choice, FilterContent(fs, choice.content))
    ELSE [ fs |-> fs, pushed |-> <<choice>>, outputAt |-> <<>> ]

\* newChoices and shouldYieldChunk after one more choice (r: its result)
Pushed(acc, r) ==
    [ newChoices |-> acc.newChoices \o r.pushed,
      shouldYieldChunk |-> acc.shouldYieldChunk \/ r.pushed # <<>>,
      outputAt |-> acc.outputAt \o r.outputAt,
      fs |-> r.fs ]

RECURSIVE FilterChoices(_, _)
FilterChoices(choices, acc) ==
    IF choices = <<>> THEN acc
    ELSE FilterChoices(Tail(choices),
                       Pushed(acc, FilterChoice(acc.fs, Head(choices))))

\* yield { ...chunk, choices: newChoices }
YieldedChunkUnspread(chunk, newChoices) ==
    [ id |-> 0, created |-> 0, model |-> "", system_fingerprint |-> None,
      choices |-> newChoices ]
YieldedChunk(chunk, newChoices) == [chunk EXCEPT !.choices = newChoices]

\* The body of `for await (const chunk of streamIterable)`: the new locals
\* and the chunk yielded, if any.
YieldIfAny(chunk, r) ==
    [ fs |-> r.fs,
      yielded |-> IF r.shouldYieldChunk
                  THEN << YieldedChunk(chunk, r.newChoices) >>
                  ELSE << >>,
      outputAt |-> r.outputAt ]

FilterChunk(fs, chunk) ==
    YieldIfAny(chunk,
        FilterChoices(chunk.choices,
            [ newChoices |-> <<>>, shouldYieldChunk |-> FALSE,
              outputAt |-> <<>>, fs |-> fs ]))

\* What the generator yields once its input is exhausted: the loop ends and
\* the function returns, the carry-over buffer is not flushed.
FlushAtEnd(fs) == << >>

\* The generator run over a whole list of chunks
AfterChunk(acc, r) == [ fs |-> r.fs, out |-> acc.out \o r.yielded ]

RECURSIVE FilterRunFrom(_, _)
FilterRunFrom(chunks, acc) ==
    IF chunks = <<>> THEN acc
    ELSE FilterRunFrom(Tail(chunks),
                       AfterChunk(acc, FilterChunk(acc.fs, Head(chunks))))

FilterRun(fs, chunks, out) == FilterRunFrom(chunks, [ fs |-> fs, out |-> out ])

\* The README's consumer: for await (const chunk of stream), the content of
\* the choice at position 0 is written when it is truthy; a chunk without
\* choices makes chunk.choices[0].delta throw TypeError, which ends the loop.
RECURSIVE ReadmeLoop(_, _)
ReadmeLoop(chunks, written) ==
    IF chunks = <<>> THEN [ written |-> written, threw |-> None ]
    ELSE IF Head(chunks).choices = <<>>
    THEN [ written |-> written, threw |-> "TypeError" ]
    ELSE ReadmeLoop(Tail(chunks),
                    IF Truthy(Head(chunks).choices[1].content)
                    THEN written \o Head(chunks).choices[1].content
                    ELSE written)

\* What that consumer has written for the chunks it was given
Written(chunks) == ReadmeLoop(chunks, <<>>).written

\* Reference notion of the properties (not the README's consumer, which
\* reads position 0): the text a stream carries for choice index i, the
\* concatenated delta.content of the choices whose index field is i
RECURSIVE ContentOfChoices(_, _)
ContentOfChoices(choices, i) ==
    IF choices = <<>> THEN <<>>
    ELSE (IF Head(choices).index = i /\ Truthy(Head(choices).content)
          THEN Head(choices).content ELSE <<>>)
         \o ContentOfChoices(Tail(choices), i)

RECURSIVE VisibleOf(_, _)
VisibleOf(chunks, i) ==
    IF chunks = <<>> THEN <<>>
    ELSE ContentOfChoices(Head(chunks).choices, i) \o VisibleOf(Tail(chunks), i)

-----------------------------------------------------------------------------
(* Inputs of the single-choice text specification *)

Tokens ==
    { <<"a">>, <<" ">>, <<"\n">>, <<"<">>,
      THINK_OPEN, THINK_CLOSE, SER_OPEN, SER_CLOSE }

RECURSIVE TokenTexts(_)
TokenTexts(n) ==
    IF n = 0 THEN { <<>> }
    ELSE LET S == TokenTexts(n - 1) IN S \cup { s \o t : s \in S, t \in Tokens }

HelloFrag1 == <<"H", "e", "l", "l", "o", " ", "<", "t", "h", "i">>
HelloFrag2 == <<"n", "k", ">", "h", "i", "d", "d", "e", "n", "<", "/", "t", "h", "i">>
HelloFrag3 == <<"n", "k", ">", " ", "w", "o", "r", "l", "d">>
HelloText  == HelloFrag1 \o HelloFrag2 \o HelloFrag3
HelloWorld == <<"H", "e", "l", "l", "o", " ", "w", "o", "r", "l", "d">>

TextThi == <<"t", "e", "x", "t", " ", "<", "t", "h", "i">>

\* a<think>x</think> b, a <think>x</think>b, a<ser>x</ser>b
FuseAfter  == <<"a">> \o THINK_OPEN \o <<"x">> \o THINK_CLOSE \o <<" ", "b">>
FuseBefore == <<"a", " ">> \o THINK_OPEN \o <<"x">> \o THINK_CLOSE \o <<"b">>
FuseSer    == <<"a">> \o SER_OPEN \o <<"x">> \o SER_CLOSE \o <<"\n", "b">>

\* a\n\n\n\nb, a\n\n<think>x</think>\n\nb, a\n\n \n b,
\* " <think>x</think> \n a b"
FourNewlines  == <<"a", "\n", "\n", "\n", "\n", "b">>
NewlinesAroundBlock ==
    <<"a", "\n", "\n">> \o THINK_OPEN \o <<"x">> \o THINK_CLOSE \o <<"\n", "\n", "b">>
DroppedNewline == <<"a", "\n", "\n", " ", "\n", " ", "b">>
LeadingAfterBlock ==
    <<" ">> \o THINK_OPEN \o <<"x">> \o THINK_CLOSE \o <<" ", "\n", " ", "a", " ", "b">>

ScenarioTexts ==
    { HelloText, TextThi, FuseAfter, FuseBefore, FuseSer,
      FourNewlines, NewlinesAroundBlock, DroppedNewline, LeadingAfterBlock }

Texts == (TokenTexts(MaxTokens) \cup ScenarioTexts) \ { <<>> }

TextChunk(content) == MkChunk(1, << MkChoice(0, content, None, None) >>)

-----------------------------------------------------------------------------
(* SpecText: one choice index, a text delivered in arbitrary fragments *)

\* The variables of the stream specification, at rest in the others
StreamIdle ==
    /\ wire = <<>>
    /\ rpos = 0
    /\ nreads = 0
    /\ lines = <<>>
    /\ spc = "fresh"
    /\ fpc = "off"
    /\ hideThink = FALSE
    /\ readerHeld = FALSE
    /\ framed = <<>>
    /\ decoderPending = <<>>
    /\ exitKind = None
    /\ thrown = [ name |-> None, cause |-> None ]

InitText ==
    /\ text \in Texts
    /\ pos = 0
    /\ emittedAt = <<>>
    /\ visible = <<>>
    /\ carried = FALSE
    /\ fstate = InitFilterState
    /\ inChunks = <<>>
    /\ outChunks = <<>>
    /\ ended = FALSE
    /\ StreamIdle
    /\ RequestIdle

\* The next k characters arrive as one chunk; the consumer appends what the
\* filter yields for it.
FeedFragment ==
    /\ ~ended
    /\ pos < Len(text)
    /\ \E k \in 1 .. (Len(text) - pos) :
         \E r \in { FilterChunk(fstate, TextChunk(SubSeq(text, pos + 1, pos + k))) } :
         LET base == pos - Len(fstate.buffer)
         IN  /\ fstate' = r.fs
             /\ visible' = visible \o Written(r.yielded)
             /\ emittedAt' = emittedAt \o
                    [ j \in 1 .. Len(r.outputAt) |-> base + r.outputAt[j] + 1 ]
             /\ carried' = (carried \/ r.fs.buffer # <<>>)
             /\ pos' = pos + k
    /\ UNCHANGED <<text, inChunks, outChunks, ended, streamVars, reqVars, sideVars>>

\* The input iterable is exhausted: the for-await loop ends and the
\* generator returns; the carry-over buffer is dropped with its locals.
EndText ==
    /\ ~ended
    /\ pos = Len(text)
    /\ ended' = TRUE
    /\ visible' = visible \o Written(FlushAtEnd(fstate))
    /\ UNCHANGED <<text, pos, emittedAt, carried, fstate, inChunks, outChunks,
                   streamVars, reqVars, sideVars>>

NextText == FeedFragment \/ EndText

SpecText == InitText /\ [][NextText]_vars

-----------------------------------------------------------------------------
(* filterThinkSerBlocks: the filter of a complete (non-streamed) message *)

\* JavaScript \w
IsWordChar(c) ==
    \/ \E i \in 1 .. Len(UPPER) : UPPER[i] = c \/ LOWER[i] = c
    \/ IsDigit(c)
    \/ c = "_"

\* Where, at or after offset `from`, the text `tag` stands in s
TagAt(s, i, tag) ==
    /\ i + Len(tag) - 1 <= Len(s)
    /\ SubSeq(s, i, i + Len(tag) - 1) = tag

ClosesFrom(s, from, close) == { j \in from .. Len(s) : TagAt(s, j, close) }

\* text.replace(/<open>[\s\S]*?<\/close>/g, ''): the matches are found
\* from left to right in the text as it was, each ending at the nearest
\* close tag; what a removal brings together is not looked at again.
RECURSIVE RemoveSpansFrom(_, _, _, _, _)
RemoveSpansFrom(s, i, open, close, acc) ==
    IF i > Len(s) THEN acc
    ELSE IF TagAt(s, i, open) /\ ClosesFrom(s, i + Len(open), close) # {}
    THEN RemoveSpansFrom(s, Least(ClosesFrom(s, i + Len(open), close)) + Len(close),
                         open, close, acc)
    ELSE RemoveSpansFrom(s, i + 1, open, close, Append(acc, s[i]))

RemoveSpans(s, open, close) == RemoveSpansFrom(s, 1, open, close, <<>>)

\* The end of the run of characters of `kind` that starts at offset i (the
\* offset of its last character; i - 1 if there is none)
RECURSIVE RunEnd(_, _, _)
RunEnd(s, i, kind) ==
    IF i <= Len(s) /\ s[i] \in kind THEN RunEnd(s, i + 1, kind) ELSE i - 1

WhiteSpace == {" ", "\n", "\t", "\r"}

\* /(\w)-\s*\n\s*(\w)/ matches at offset i: e is the end of the whitespace
\* after the hyphen
HyphenWrapAt(s, i, e) ==
    /\ i + 1 <= Len(s)
    /\ IsWordChar(s[i])
    /\ s[i + 1] = "-"
    /\ \E j \in (i + 2) .. e : s[j] = "\n"
    /\ e + 1 <= Len(s)
    /\ IsWordChar(s[e + 1])

\* result.replace(/(\w)-\s*\n\s*(\w)/g, '$1$2')
RECURSIVE RejoinFrom(_, _, _)
RejoinFrom(s, i, acc) ==
    IF i > Len(s) THEN acc
    ELSE IF HyphenWrapAt(s, i, RunEnd(s, i + 2, WhiteSpace))
    THEN RejoinFrom(s, RunEnd(s, i + 2, WhiteSpace) + 2,
                    acc \o << s[i], s[RunEnd(s, i + 2, WhiteSpace) + 1] >>)
    ELSE RejoinFrom(s, i + 1, Append(acc, s[i]))

RejoinHyphens(s) == RejoinFrom(s, 1, <<>>)

\* result.replace(/c{n,}/g, rep): every maximal run of at least n
\* characters c becomes rep
RECURSIVE CollapseFrom(_, _, _, _, _, _)
CollapseFrom(s, i, c, n, rep, acc) ==
    IF i > Len(s) THEN acc
    ELSE IF s[i] = c
    THEN CollapseFrom(s, RunEnd(s, i, {c}) + 1, c, n, rep,
                      IF RunEnd(s, i, {c}) - i + 1 >= n THEN acc \o rep
                      ELSE acc \o SubSeq(s, i, RunEnd(s, i, {c})))
    ELSE CollapseFrom(s, i + 1, c, n, rep, Append(acc, s[i]))

CollapseNewlines(s) == CollapseFrom(s, 1, "\n", 3, <<"\n", "\n">>, <<>>)
CollapseSpaces(s)   == CollapseFrom(s, 1, " ", 2, <<" ">>, <<>>)

\* result.trim()
CompletionTrimStartOnly(s) == TrimStart(s)
CompletionTrim(s) == Trim(s)

filterThinkSerBlocks(t) ==
    IF ~Truthy(t) THEN t
    ELSE CompletionTrim(CollapseSpaces(CollapseNewlines(RejoinHyphens(
            RemoveSpans(RemoveSpans(t, THINK_OPEN, THINK_CLOSE),
                        SER_OPEN, SER_CLOSE)))))

\* filterCompletion on one choice: the content is replaced if it is there
FilteredMessage(content) ==
    IF Truthy(content) THEN filterThinkSerBlocks(content) ELSE content

-----------------------------------------------------------------------------
(* SpecCompletion: one full text, filtered as the content of a completed
   message, and delivered as one fragment of a stream *)

CompletionTokens ==
    { <<"a">>, <<" ">>, <<"\n">>, <<"-">>,
      THINK_OPEN, THINK_CLOSE, SER_OPEN, SER_CLOSE }

RECURSIVE CompletionTokenTexts(_)
CompletionTokenTexts(n) ==
    IF n = 0 THEN { <<>> }
    ELSE LET S == CompletionTokenTexts(n - 1)
         IN  S \cup { s \o t : s \in S, t \in CompletionTokens }

\* <th<ser>x</ser>ink>a</think>, word-\n word, " a   \n\n\n\n b ", a<think>x
NestedSpan  == <<"<", "t", "h">> \o SER_OPEN \o <<"x">> \o SER_CLOSE
               \o <<"i", "n", "k", ">", "a">> \o THINK_CLOSE
WrappedWord == <<"w", "o", "r", "d", "-", "\n", " ", "w", "o", "r", "d">>
Unnormalised == <<" ", "a", " ", " ", " ", "\n", "\n", "\n", "\n", " ", "b", " ">>
Unclosed    == <<"a">> \o THINK_OPEN \o <<"x">>

CompletionTexts ==
    (CompletionTokenTexts(MaxTokens)
        \cup { NestedSpan, WrappedWord, Unnormalised, Unclosed, FuseAfter })
    \ { <<>> }

InitCompletion ==
    /\ text \in CompletionTexts
    /\ pos = 0
    /\ emittedAt = <<>>
    /\ visible = <<>>
    /\ carried = FALSE
    /\ fstate = InitFilterState
    /\ inChunks = <<>>
    /\ outChunks = <<>>
    /\ ended = FALSE
    /\ StreamIdle
    /\ RequestIdle

\* create() without stream, hideThink set: filterCompletion replaces the
\* content of the message.
FilterCompletion ==
    /\ ~completion.done
    /\ completion' = [ done |-> TRUE, content |-> FilteredMessage(text) ]
    /\ UNCHANGED <<textVars, fstate, inChunks, outChunks, ended, streamVars,
                   reqVars, streams, client>>

\* The same text arrives as the one fragment of a stream.
FeedWhole ==
    /\ ~ended
    /\ pos = 0
    /\ \E r \in { FilterChunk(fstate, TextChunk(text)) } :
         /\ fstate' = r.fs
         /\ visible' = visible \o Written(r.yielded)
         /\ emittedAt' = emittedAt \o [ j \in 1 .. Len(r.outputAt) |-> r.outputAt[j] + 1 ]
         /\ carried' = (r.fs.buffer # <<>>)
         /\ pos' = Len(text)
    /\ UNCHANGED <<text, inChunks, outChunks, ended, streamVars, reqVars, sideVars>>

NextCompletion == FilterCompletion \/ FeedWhole \/ EndText

SpecCompletion == InitCompletion /\ [][NextCompletion]_vars

-----------------------------------------------------------------------------
(* SpecChunks: chunks with several choices, finish reasons and metadata *)

One(index, content, role, finish_reason) ==
    MkChunk(0, << MkChoice(index, content, role, finish_reason) >>)

\* a choice that carries a tool call and no text, and one with text and
\* every other field set
ToolCallOnly == [ MkChoice(0, NoContent, None, None) EXCEPT !.tool_calls = "tc" ]

WithMetadata ==
    [ MkChoice(0, <<"b">> \o THINK_OPEN, "assistant", None)
        EXCEPT !.tool_calls = "tc", !.function_call = "fc", !.logprobs = "lp" ]

\* a choice whose text opens a block and stays in it, with a role, a tool
\* call and a function call
MetadataInBlock ==
    [ MkChoice(0, THINK_OPEN \o <<"x">>, "assistant", None)
        EXCEPT !.tool_calls = "tc", !.function_call = "fc" ]

ChunkInputs ==
    { One(0, HelloFrag1, None, None),
      MkChunk(0, << MetadataInBlock >>),
      MkChunk(0, << MkChoice(0, <<"a">>, None, None),
                    [ MetadataInBlock EXCEPT !.index = 1 ] >>),
      One(0, HelloFrag2, None, None),
      One(0, HelloFrag3, None, None),
      One(0, TextThi, None, None),
      One(0, THINK_OPEN \o <<"x">>, None, None),
      One(0, THINK_CLOSE \o <<"b">>, None, None),
      One(1, <<"a">>, None, None),
      One(0, <<"x">>, None, "stop"),
      One(0, <<"<", "t", "h">>, None, "length"),
      One(0, NoContent, None, "stop"),
      One(0, NoContent, "assistant", None),
      MkChunk(0, << >>),
      MkChunk(0, << MkChoice(0, <<"a">>, None, None),
                    MkChoice(1, SER_OPEN, None, "stop") >>),
      One(0, << >>, None, None),
      MkChunk(0, << ToolCallOnly >>),
      [ MkChunk(0, << WithMetadata >>)
          EXCEPT !.created = 1, !.model = "m2", !.system_fingerprint = "fp" ] }

InitChunks ==
    /\ text = <<>>
    /\ pos = 0
    /\ emittedAt = <<>>
    /\ visible = <<>>
    /\ carried = FALSE
    /\ fstate = InitFilterState
    /\ inChunks = <<>>
    /\ outChunks = <<>>
    /\ ended = FALSE
    /\ StreamIdle
    /\ RequestIdle

\* The input iterable delivers its next chunk (the n-th chunk carries id n).
FilterNext ==
    /\ ~ended
    /\ Len(inChunks) < MaxChunks
    /\ \E c \in ChunkInputs :
         \E r \in { FilterChunk(fstate, [c EXCEPT !.id = Len(inChunks) + 1]) } :
         LET chunk == [c EXCEPT !.id = Len(inChunks) + 1]
         IN  /\ inChunks' = Append(inChunks, chunk)
             /\ fstate' = r.fs
             /\ outChunks' = outChunks \o r.yielded
    /\ UNCHANGED <<textVars, ended, streamVars, reqVars, sideVars>>

\* The input iterable is exhausted: the generator returns.
EndOfStream ==
    /\ ~ended
    /\ ended' = TRUE
    /\ outChunks' = outChunks \o FlushAtEnd(fstate)
    /\ UNCHANGED <<textVars, fstate, inChunks, streamVars, reqVars, sideVars>>

NextChunks == FilterNext \/ EndOfStream

SpecChunks == InitChunks /\ [][NextChunks]_vars

-----------------------------------------------------------------------------
(* handleStreamResponse: decoding, line splitting, JSON decoding *)

\* The body is a sequence of bytes.  An ASCII byte is written as its
\* character; "C3" "A9" are the two bytes of U+00E9.
LeadByte == "C3"
ContByte == "A9"

\* decoder.decode(value, { stream: true }): bytes to characters, an
\* incomplete trailing sequence is held back for the next call.
RECURSIVE DecodeFrom(_, _, _)
DecodeFrom(bs, i, acc) ==
    IF i > Len(bs) THEN [ chars |-> acc, pending |-> <<>> ]
    ELSE IF bs[i] = LeadByte
    THEN IF i = Len(bs) THEN [ chars |-> acc, pending |-> << LeadByte >> ]
         ELSE IF bs[i + 1] = ContByte
         THEN DecodeFrom(bs, i + 2, Append(acc, "U+00E9"))
         ELSE DecodeFrom(bs, i + 1, Append(acc, "U+FFFD"))
    ELSE IF bs[i] = ContByte
    THEN DecodeFrom(bs, i + 1, Append(acc, "U+FFFD"))
    ELSE DecodeFrom(bs, i + 1, Append(acc, bs[i]))

Decode(pending, value) == DecodeFrom(pending \o value, 1, <<>>)

\* chunk.split('\n'): cur is the line being collected, acc the lines before it
RECURSIVE SplitFrom(_, _, _, _)
SplitFrom(s, i, cur, acc) ==
    IF i > Len(s) THEN Append(acc, cur)
    ELSE IF s[i] = "\n" THEN SplitFrom(s, i + 1, <<>>, Append(acc, cur))
    ELSE SplitFrom(s, i + 1, Append(cur, s[i]), acc)

SplitLines(s) == SplitFrom(s, 1, <<>>, <<>>)

DATA_PREFIX == <<"d", "a", "t", "a", ":", " ">>
DONE_LINE   == DATA_PREFIX \o <<"[", "D", "O", "N", "E", "]">>
DataPrefixLen == 6

\* The payloads of the model and the values JSON.parse gives for them.  An
\* object is a record with the set `has` of the keys it carries; `value`
\* tells an object from the value null.
PayloadId      == <<"{", "\"", "i", "d", "\"", ":", "\"", "a", "\"", "}">>
PayloadIdE     == <<"{", "\"", "i", "d", "\"", ":", "\"", "U+00E9", "\"", "}">>
PayloadChoice  == <<"{", "\"", "c", "h", "o", "i", "c", "e", "s", "\"", ":",
                    "[", "{", "}", "]", "}">>
PayloadBad     == <<"{">>
PayloadNull    == <<"n", "u", "l", "l">>
\* {"choices":[{"delta":{"tool_calls":[{}]}}]}
PayloadToolNoFunction ==
    <<"{", "\"", "c", "h", "o", "i", "c", "e", "s", "\"", ":", "[", "{",
      "\"", "d", "e", "l", "t", "a", "\"", ":", "{", "\"", "t", "o", "o",
      "l", "_", "c", "a", "l", "l", "s", "\"", ":", "[", "{", "}", "]",
      "}", "}", "]", "}">>

\* {"choices":[{"delta":{"content":"..."}}]}
ContentPrefix ==
    <<"{", "\"", "c", "h", "o", "i", "c", "e", "s", "\"", ":", "[", "{",
      "\"", "d", "e", "l", "t", "a", "\"", ":", "{", "\"", "c", "o", "n",
      "t", "e", "n", "t", "\"", ":", "\"">>
ContentSuffix == <<"\"", "}", "}", "]", "}">>
PayloadContent(c) == ContentPrefix \o c \o ContentSuffix

ContentData(c) ==
    [ value |-> "object", has |-> {"choices"}, id |-> "",
      choices |-> << [ has |-> {"delta"}, index |-> 0, finish_reason |-> None,
                       delta |-> [ has |-> {"content"}, content |-> c,
                                   role |-> None, tool_calls |-> << >> ] ] >> ]

StreamContents == { <<"a">>, THINK_OPEN, THINK_CLOSE }

EmptyChoiceData ==
    [ has |-> {}, index |-> 0, finish_reason |-> None,
      delta |-> [ has |-> {}, content |-> NoContent, role |-> None,
                  tool_calls |-> << >> ] ]

\* A choice whose delta carries one tool call that has no function object
ToolNoFunctionData ==
    [ has |-> {"delta"}, index |-> 0, finish_reason |-> None,
      delta |-> [ has |-> {"tool_calls"}, content |-> NoContent, role |-> None,
                  tool_calls |-> << [ has |-> {} ] >> ] ]

JsonDocs ==
    { [ text |-> PayloadId,
        data |-> [ value |-> "object", has |-> {"id"}, id |-> "a",
                   choices |-> << >> ] ],
      [ text |-> PayloadIdE,
        data |-> [ value |-> "object", has |-> {"id"}, id |-> "U+00E9",
                   choices |-> << >> ] ],
      [ text |-> PayloadChoice,
        data |-> [ value |-> "object", has |-> {"choices"}, id |-> "",
                   choices |-> << EmptyChoiceData >> ] ] }
    \cup { [ text |-> PayloadContent(c), data |-> ContentData(c) ] :
             c \in StreamContents }
    \cup { [ text |-> PayloadNull,
             data |-> [ value |-> "null", has |-> {}, id |-> "",
                        choices |-> << >> ] ],
           [ text |-> PayloadToolNoFunction,
             data |-> [ value |-> "object", has |-> {"choices"}, id |-> "",
                        choices |-> << ToolNoFunctionData >> ] ] }

\* JSON.parse(line.slice(6)): every other text the model's lines and their
\* pieces give (a proper prefix of a payload, "[", "[D", ...) is not JSON.
ParseJSON(s) ==
    IF \E d \in JsonDocs : d.text = s
    THEN [ ok |-> TRUE, data |-> (CHOOSE d \in JsonDocs : d.text = s).data ]
    ELSE [ ok |-> FALSE, data |-> [ value |-> "object", has |-> {}, id |-> "",
                                    choices |-> << >> ] ]

\* The Choice built from one element of data.choices
NormalizeChoice(choiceData) ==
    LET hasDelta  == "delta" \in choiceData.has
        deltaHas  == IF hasDelta THEN choiceData.delta.has ELSE {}
    IN  [ MkChoice(
            IF "index" \in choiceData.has THEN choiceData.index ELSE 0,
            IF "content" \in deltaHas THEN choiceData.delta.content ELSE NoContent,
            IF "role" \in deltaHas THEN choiceData.delta.role ELSE None,
            IF "finish_reason" \in choiceData.has
            THEN choiceData.finish_reason ELSE None)
          EXCEPT !.tool_calls = IF "tool_calls" \in deltaHas THEN "tc" ELSE None ]

\* for (const choiceData of data.choices || []) { ... choices.push(choice) }
RECURSIVE NormalizeChoices(_)
NormalizeChoices(cs) ==
    IF cs = <<>> THEN <<>>
    ELSE << NormalizeChoice(Head(cs)) >> \o NormalizeChoices(Tail(cs))

\* The chunk yielded for a decoded event: id: data.id || '', created:
\* data.created || 0, model: data.model || '', choices from data.choices || []
Normalize(data) ==
    [ id |-> IF "id" \in data.has THEN data.id ELSE "",
      created |-> 0, model |-> "", system_fingerprint |-> None,
      choices |-> IF "choices" \in data.has
                  THEN NormalizeChoices(data.choices) ELSE << >> ]

\* Building the chunk raises a TypeError: data.choices of null (types.ts
\* 525), tc.function.name of a tool call without function (types.ts 534)
MappingThrows(data) ==
    \/ data.value = "null"
    \/ \E i \in 1 .. Len(data.choices) :
          /\ "delta" \in data.choices[i].has
          /\ "tool_calls" \in data.choices[i].delta.has
          /\ \E j \in 1 .. Len(data.choices[i].delta.tool_calls) :
                "function" \notin data.choices[i].delta.tool_calls[j].has

\* try { data = JSON.parse(...); ...; yield chunk } catch { throw HAIError }
YieldOrThrow(r) ==
    [ kind |-> IF r.ok /\ ~MappingThrows(r.data) THEN "yield" ELSE "throw",
      chunk |-> Normalize(r.data) ]

\* What the catch block of a `data: ` line caught
DecodeErrorOf(line) ==
    IF ParseJSON(Slice(line, DataPrefixLen)).ok THEN "TypeError" ELSE "SyntaxError"

\* FrameLine without its test for the sentinel
FrameLineNoSentinel(line) ==
    IF Trim(line) = <<>> THEN [ kind |-> "skip", chunk |-> Normalize(ParseJSON(<<>>).data) ]
    ELSE IF StartsWith(line, DATA_PREFIX)
    THEN YieldOrThrow(ParseJSON(Slice(line, DataPrefixLen)))
    ELSE [ kind |-> "skip", chunk |-> Normalize(ParseJSON(<<>>).data) ]

\* The body of `for (const line of lines)` for one line: the line is
\* skipped, ends the sequence (return), yields a chunk, or throws.
FrameLine(line) ==
    IF Trim(line) = <<>> THEN [ kind |-> "skip", chunk |-> Normalize(ParseJSON(<<>>).data) ]
    ELSE IF Trim(line) = DONE_LINE
    THEN [ kind |-> "return", chunk |-> Normalize(ParseJSON(<<>>).data) ]
    ELSE IF StartsWith(line, DATA_PREFIX)
    THEN YieldOrThrow(ParseJSON(Slice(line, DataPrefixLen)))
    ELSE [ kind |-> "skip", chunk |-> Normalize(ParseJSON(<<>>).data) ]

\* finally { reader.releaseLock() }: whether the lock is still held after
\* the generator has left by the given way ("end": read reported done,
\* "sentinel": data: [DONE], "decode": a payload failed to decode, "read":
\* reader.read() rejected, "return": the consumer stopped iterating)
ReaderHeldWithoutFinally(kind) == kind # "end"
ReaderHeldAfterExit(kind) == FALSE

\* What reader.read() can reject with: the request was aborted (a timeout,
\* a cancellation), the connection failed.
ReadErrors == { "AbortError", "TypeError" }

\* The error the generator throws to its consumer when it leaves by `kind`
\* because of e: a payload that fails to decode is caught and rethrown as
\* `new HAIError(`Error parsing stream: ${error}`)`; the await of
\* reader.read() stands in try/finally only, so its rejection leaves the
\* generator as it is.
ThrownOnExit(kind, e) ==
    IF kind = "decode" THEN [ name |-> "HAIError", cause |-> e ]
    ELSE IF kind \in {"read", "getReader"} THEN [ name |-> e, cause |-> e ]
    ELSE [ name |-> None, cause |-> None ]

-----------------------------------------------------------------------------
(* SpecStream: a response body read in arbitrary pieces, the framer, the
   optional filter around it and the consumer's iteration *)

LineId     == DATA_PREFIX \o PayloadId
LineIdE    == <<"d", "a", "t", "a", ":", " ", "{", "\"", "i", "d", "\"", ":",
               "\"", LeadByte, ContByte, "\"", "}">>
LineChoice == DATA_PREFIX \o PayloadChoice
LineBad    == DATA_PREFIX \o PayloadBad
LineNull   == DATA_PREFIX \o PayloadNull
LineToolNoFunction == DATA_PREFIX \o PayloadToolNoFunction
LineBlank  == << >>

LineSet == { LineId, LineIdE, LineChoice, LineBad, LineNull, LineBlank, DONE_LINE }

WireOf3(l1, l2, l3) == l1 \o <<"\n">> \o l2 \o <<"\n">> \o l3 \o <<"\n">>

ScenarioWires ==
    { WireOf3(LineId, DONE_LINE, LineChoice),
      WireOf3(LineId, LineBlank, LineChoice),
      WireOf3(LineChoice, LineBad, LineId),
      LineToolNoFunction \o <<"\n">>,
      DATA_PREFIX \o PayloadContent(THINK_OPEN) \o <<"\n">> }

Wires ==
    { l \o <<"\n">> : l \in LineSet }
    \cup { l1 \o <<"\n">> \o l2 \o <<"\n">> : l1 \in LineSet, l2 \in LineSet }
    \cup ScenarioWires

\* create(): `if (hideThink) return this.createFilteredStreamGenerator(
\* streamIterable)`, else the framer's iterable itself is returned
FilterWrappedAlways(option) == TRUE
FilterWrapped(option) == option

InitStream ==
    /\ wire \in Wires
    /\ hideThink \in BOOLEAN
    /\ rpos = 0
    /\ nreads = 0
    /\ lines = <<>>
    /\ spc = "fresh"
    /\ fpc = "off"
    /\ readerHeld = FALSE
    /\ framed = <<>>
    /\ decoderPending = <<>>
    /\ exitKind = None
    /\ thrown = ThrownOnExit(None, None)
    /\ text = <<>>
    /\ pos = 0
    /\ emittedAt = <<>>
    /\ visible = <<>>
    /\ carried = FALSE
    /\ fstate = InitFilterState
    /\ inChunks = <<>>
    /\ outChunks = <<>>
    /\ ended = FALSE
    /\ RequestIdle

\* handleStreamResponse leaves by `kind` (because of the error e, if any);
\* its finally block runs; a filter around it ends with it (it has no catch:
\* an error passes through it).
Exit(kind, e) ==
    /\ spc' = "done"
    /\ exitKind' = kind
    /\ thrown' = ThrownOnExit(kind, e)
    /\ readerHeld' = ReaderHeldAfterExit(kind)
    /\ fpc' = IF FilterWrapped(hideThink) THEN "done" ELSE fpc
    /\ ended' = (FilterWrapped(hideThink) /\ kind \in {"end", "sentinel"})
    /\ outChunks' = IF FilterWrapped(hideThink) /\ kind \in {"end", "sentinel"}
                    THEN outChunks \o FlushAtEnd(fstate) ELSE outChunks

\* The consumer asks for the first chunk: the generators start and
\* response.body.getReader() is called.  A body that gives a reader
\* (hasReader) has it acquired.  A body that is null or has no getReader (a
\* response without content, the stream of node-fetch) makes that call
\* throw TypeError before the try: the framer is over with no reader
\* acquired, nothing read and its finally not run, and a filter around it
\* ends with it.
StartIteration ==
    /\ spc = "fresh"
    /\ \E hasReader \in BOOLEAN :
         IF hasReader
         THEN /\ readerHeld' = TRUE
              /\ spc' = "await"
              /\ fpc' = IF FilterWrapped(hideThink) THEN "pull" ELSE "off"
              /\ UNCHANGED <<exitKind, thrown>>
         ELSE /\ readerHeld' = FALSE
              /\ spc' = "done"
              /\ fpc' = IF FilterWrapped(hideThink) THEN "done" ELSE "off"
              /\ exitKind' = "getReader"
              /\ thrown' = ThrownOnExit("getReader", "TypeError")
    /\ UNCHANGED <<reqVars, sideVars, textVars, fstate, inChunks, outChunks, ended, wire, rpos,
                   nreads, lines, hideThink, framed, decoderPending>>

\* reader.read() delivers the next k bytes of the body.
ReadData ==
    /\ spc = "await"
    /\ rpos < Len(wire)
    /\ nreads < MaxReads
    /\ \E k \in 1 .. (Len(wire) - rpos) :
         /\ nreads + 1 = MaxReads => k = Len(wire) - rpos
         /\ \E d \in { Decode(decoderPending, SubSeq(wire, rpos + 1, rpos + k)) } :
            /\ lines' = SplitLines(d.chars)
            /\ decoderPending' = d.pending
         /\ rpos' = rpos + k
    /\ nreads' = nreads + 1
    /\ spc' = "lines"
    /\ UNCHANGED <<reqVars, sideVars, textVars, fstate, inChunks, outChunks, ended, wire, fpc,
                   hideThink, readerHeld, framed, exitKind, thrown>>

\* reader.read() reports done: the loop is left by break.
ReadDone ==
    /\ spc = "await"
    /\ rpos = Len(wire)
    /\ Exit("end", None)
    /\ UNCHANGED <<reqVars, sideVars, textVars, fstate, inChunks, wire, rpos, nreads, lines,
                   hideThink, framed, decoderPending>>

\* reader.read() rejects (connection lost, request aborted).
ReadFail ==
    /\ spc = "await"
    /\ \E e \in ReadErrors : Exit("read", e)
    /\ UNCHANGED <<reqVars, sideVars, textVars, fstate, inChunks, wire, rpos, nreads, lines,
                   hideThink, framed, decoderPending>>

\* The lines of the current read are used up: back to reader.read().
LinesDone ==
    /\ spc = "lines"
    /\ lines = <<>>
    /\ spc' = "await"
    /\ UNCHANGED <<reqVars, sideVars, textVars, fstate, inChunks, outChunks, ended, wire, rpos,
                   nreads, lines, fpc, hideThink, readerHeld, framed,
                   decoderPending, exitKind, thrown>>

\* The next line of the current read.
NextLine ==
    /\ spc = "lines"
    /\ lines # <<>>
    /\ \E r \in { FrameLine(Head(lines)) } :
       \/ /\ r.kind = "skip"
          /\ lines' = Tail(lines)
          /\ UNCHANGED <<spc, fpc, readerHeld, framed, exitKind, thrown,
                         outChunks, ended>>
       \/ /\ r.kind = "yield"
          /\ lines' = Tail(lines)
          /\ framed' = Append(framed, r.chunk)
          /\ spc' = "yield"
          /\ UNCHANGED <<fpc, readerHeld, exitKind, thrown, outChunks, ended>>
       \/ /\ r.kind = "return"
          /\ Exit("sentinel", None)
          /\ UNCHANGED <<lines, framed>>
       \/ /\ r.kind = "throw"
          /\ Exit("decode", DecodeErrorOf(Head(lines)))
          /\ UNCHANGED <<lines, framed>>
    /\ UNCHANGED <<reqVars, sideVars, textVars, fstate, inChunks, wire, rpos, nreads, hideThink,
                   decoderPending>>

\* The filter takes the chunk the framer yielded: it yields its filtered
\* chunk to the consumer, or suppresses it and asks the framer for the next.
FilterPull ==
    /\ FilterWrapped(hideThink)
    /\ fpc = "pull"
    /\ spc = "yield"
    /\ \E r \in { FilterChunk(fstate, framed[Len(framed)]) } :
       /\ fstate' = r.fs
       /\ inChunks' = Append(inChunks, framed[Len(framed)])
       /\ outChunks' = outChunks \o r.yielded
       /\ fpc' = IF r.yielded # <<>> THEN "yield" ELSE "pull"
       /\ spc' = IF r.yielded # <<>> THEN "yield" ELSE "lines"
    /\ UNCHANGED <<reqVars, sideVars, textVars, ended, wire, rpos, nreads, lines, hideThink,
                   readerHeld, framed, decoderPending, exitKind, thrown>>

\* The consumer holds a chunk (of the filter if there is one, of the framer
\* otherwise)
ConsumerHasChunk ==
    IF FilterWrapped(hideThink) THEN fpc = "yield" /\ spc = "yield"
    ELSE spc = "yield"

\* The consumer asks for the next chunk.
ConsumerNext ==
    /\ ConsumerHasChunk
    /\ spc' = "lines"
    /\ fpc' = IF FilterWrapped(hideThink) THEN "pull" ELSE fpc
    /\ UNCHANGED <<reqVars, sideVars, textVars, fstate, inChunks, outChunks, ended, wire, rpos,
                   nreads, lines, hideThink, readerHeld, framed,
                   decoderPending, exitKind, thrown>>

\* The consumer stops iterating (break out of for await): return() on the
\* outermost generator, which passes it on to the framer.
ConsumerReturn ==
    /\ ConsumerHasChunk
    /\ Exit("return", None)
    /\ UNCHANGED <<reqVars, sideVars, textVars, fstate, inChunks, wire, rpos, nreads, lines,
                   hideThink, framed, decoderPending>>

NextStream ==
    \/ StartIteration
    \/ ReadData
    \/ ReadDone
    \/ ReadFail
    \/ LinesDone
    \/ NextLine
    \/ FilterPull
    \/ ConsumerNext
    \/ ConsumerReturn

SpecStream == InitStream /\ [][NextStream]_vars

-----------------------------------------------------------------------------
(* SpecTwoStreams: two filtered streams of one client, consumed in any
   interleaving.  Each call of handleStreamResponse and of
   createFilteredStreamGenerator has its own locals; a stream is the
   record of them: the lines of its body, how many it has looked at, the
   filter's locals, what the consumer received and how the stream ended. *)

LineText(c) == DATA_PREFIX \o PayloadContent(c)

\* The lines a body is made of: a visible text, the opening of a block, a
\* payload that does not decode, a blank line and the sentinel
StreamLines ==
    { LineText(<<"a">>), LineText(THINK_OPEN), LineBad, LineBlank, DONE_LINE }

RECURSIVE StreamBodies(_)
StreamBodies(n) ==
    IF n = 0 THEN { << >> }
    ELSE LET B == StreamBodies(n - 1) IN B \cup { Append(b, l) : b \in B, l \in StreamLines }

NewStream(body) ==
    [ body |-> body, at |-> 0, pending |-> << >>, fs |-> InitFilterState,
      out |-> << >>, exit |-> None, thrown |-> ThrownOnExit(None, None) ]

\* The generator of stream s assigns its locals: they are its own
WithStateShared(ss, s, fs) == [ t \in DOMAIN ss |-> [ ss[t] EXCEPT !.fs = fs ] ]
WithState(ss, s, fs) == [ ss EXCEPT ![s].fs = fs ]

\* Stream s leaves by `kind`
StreamExit(ss, s, kind, e) ==
    [ ss EXCEPT ![s].exit = kind,
                ![s].thrown = ThrownOnExit(kind, e),
                ![s].out = IF kind \in {"end", "sentinel"}
                           THEN @ \o FlushAtEnd(ss[s].fs) ELSE @ ]

\* The chunk the framer of stream s yielded goes through its filter
StreamChunk(ss, s, r) ==
    [ WithState(ss, s, r.fs) EXCEPT ![s].out = @ \o r.yielded,
                                    ![s].pending = << >> ]

InitTwoStreams ==
    /\ \E b1 \in StreamBodies(MaxLines), b2 \in StreamBodies(MaxLines) :
         streams = << NewStream(b1), NewStream(b2) >>
    /\ completion = NoCompletion
    /\ client = NoClient
    /\ rqpc = "idle"
    /\ reqStream = FALSE
    /\ response = NoResponse
    /\ classified = NoError
    /\ result = [ state |-> "pending", error |-> NoError ]
    /\ fetches = 0
    /\ listed = NoListed
    /\ text = <<>>
    /\ pos = 0
    /\ emittedAt = <<>>
    /\ visible = <<>>
    /\ carried = FALSE
    /\ fstate = InitFilterState
    /\ inChunks = <<>>
    /\ outChunks = <<>>
    /\ ended = FALSE
    /\ StreamIdle

\* The consumer of stream s asks for its next chunk and the framer comes to
\* its next line.  A chunk it yields is handed to the filter, which is
\* resumed in a later turn of the event loop: until then the chunk is
\* pending and the other stream may run.
StreamLine(s) ==
    /\ streams[s].exit = None
    /\ streams[s].pending = << >>
    /\ streams[s].at < Len(streams[s].body)
    /\ \E r \in { FrameLine(streams[s].body[streams[s].at + 1]) } :
       \E ss \in { [ streams EXCEPT ![s].at = @ + 1 ] } :
       \/ /\ r.kind = "skip"
          /\ streams' = ss
       \/ /\ r.kind = "yield"
          /\ streams' = [ ss EXCEPT ![s].pending = << r.chunk >> ]
       \/ /\ r.kind = "return"
          /\ streams' = StreamExit(ss, s, "sentinel", None)
       \/ /\ r.kind = "throw"
          /\ streams' = StreamExit(ss, s, "decode",
                                    DecodeErrorOf(ss[s].body[ss[s].at]))
    /\ UNCHANGED <<textVars, fstate, inChunks, outChunks, ended, streamVars,
                   reqVars, completion, client>>

\* The filter of stream s is resumed with the chunk its framer yielded:
\* the body of its `for await` runs for that chunk.
StreamFilter(s) ==
    /\ streams[s].exit = None
    /\ streams[s].pending # << >>
    /\ streams' = StreamChunk(streams, s,
                              FilterChunk(streams[s].fs, streams[s].pending[1]))
    /\ UNCHANGED <<textVars, fstate, inChunks, outChunks, ended, streamVars,
                   reqVars, completion, client>>

\* reader.read() of stream s reports done.
StreamEnd(s) ==
    /\ streams[s].exit = None
    /\ streams[s].pending = << >>
    /\ streams[s].at = Len(streams[s].body)
    /\ streams' = StreamExit(streams, s, "end", None)
    /\ UNCHANGED <<textVars, fstate, inChunks, outChunks, ended, streamVars,
                   reqVars, completion, client>>

NextTwoStreams ==
    \/ \E s \in 1 .. 2 : StreamLine(s)
    \/ \E s \in 1 .. 2 : StreamFilter(s)
    \/ \E s \in 1 .. 2 : StreamEnd(s)

SpecTwoStreams == InitTwoStreams /\ [][NextTwoStreams]_vars

-----------------------------------------------------------------------------
(* SpecClient: new HAI(options) in an environment *)

\* JavaScript truthiness of an optional string held as an atom, and of an
\* optional number
TruthyValue(x) == x # None /\ x # ""
TruthyNumber(n) == n.kind = "number" /\ n.value # 0

\* a || b for such strings
Or(a, b) == IF TruthyValue(a) THEN a ELSE b

\* options.apiKey || process.env.HAI_API_KEY || ''
ApiKeyEnvFirst(optionKey, envKey) == Or(envKey, Or(optionKey, ""))
ApiKeyOf(optionKey, envKey) == Or(optionKey, Or(envKey, ""))

DefaultBaseURL ==
    <<"h", "t", "t", "p", "s", ":", "/", "/", "a", "p", "i", ".", "h", "e",
      "l", "p", "i", "n", "g", "a", "i", ".", "c", "o", "/", "v", "1">>
DefaultTimeout == 60000

\* url.replace(/\/$/, '')
StripSlash(url) ==
    IF url # <<>> /\ url[Len(url)] = "/" THEN SubSeq(url, 1, Len(url) - 1) ELSE url

\* The client the constructor leaves, or the error it throws, for the
\* options o, the environment variable envKey and the fetch the module found
\* when it was loaded (moduleFetch: there is one)
Constructed(o, envKey, moduleFetch) ==
    IF ~TruthyValue(ApiKeyOf(o.apiKey, envKey))
    THEN [ pc |-> "threw", thrown |-> "NoAPIKeyError", apiKey |-> "",
           baseURL |-> <<>>, timeout |-> Undefined ]
    ELSE IF ~(o.fetch \/ moduleFetch)
    THEN [ pc |-> "threw", thrown |-> "Error", apiKey |-> "",
           baseURL |-> <<>>, timeout |-> Undefined ]
    ELSE [ pc |-> "constructed", thrown |-> None,
           apiKey |-> ApiKeyOf(o.apiKey, envKey),
           baseURL |-> StripSlash(OrElse(o.baseURL, DefaultBaseURL)),
           timeout |-> IF TruthyNumber(o.timeout) THEN o.timeout
                       ELSE Num(DefaultTimeout) ]

KeyInputs == { None, "", "key-1", "key-2" }
UrlInputs == { NoContent, <<"h", ":", "/", "/", "x">>, <<"h", ":", "/", "/", "x", "/">> }
TimeoutInputs == { Undefined, Num(0), Num(5000) }

OptionInputs ==
    { [ apiKey |-> k, baseURL |-> u, timeout |-> t, fetch |-> f ] :
        k \in KeyInputs, u \in UrlInputs, t \in TimeoutInputs, f \in BOOLEAN }

InitClient ==
    /\ \E o \in OptionInputs, e \in KeyInputs, m \in BOOLEAN :
         client = [ pc |-> "new", options |-> o, env |-> e, moduleFetch |-> m,
                    made |-> NoClient ]
    /\ completion = NoCompletion
    /\ streams = NoStreams
    /\ rqpc = "idle"
    /\ reqStream = FALSE
    /\ response = NoResponse
    /\ classified = NoError
    /\ result = [ state |-> "pending", error |-> NoError ]
    /\ fetches = 0
    /\ listed = NoListed
    /\ text = <<>>
    /\ pos = 0
    /\ emittedAt = <<>>
    /\ visible = <<>>
    /\ carried = FALSE
    /\ fstate = InitFilterState
    /\ inChunks = <<>>
    /\ outChunks = <<>>
    /\ ended = FALSE
    /\ StreamIdle

\* new HAI(options): BaseClient's constructor runs.
Construct ==
    /\ client.pc = "new"
    /\ client' = [ client EXCEPT
                     !.pc = "done",
                     !.made = Constructed(client.options, client.env,
                                          client.moduleFetch) ]
    /\ UNCHANGED <<textVars, fstate, inChunks, outChunks, ended, streamVars,
                   reqVars, completion, streams>>

NextClient == Construct

SpecClient == InitClient /\ [][NextClient]_vars

-----------------------------------------------------------------------------
(* SpecRequest: BaseClient.request against a transport that answers with a
   response or rejects *)

MsgGptX     == <<"M", "o", "d", "e", "l", " ", "'", "g", "p", "t", "-", "x", "'", " ",
      "n", "o", "t", " ", "f", "o", "u", "n", "d">>
MsgTwo      == <<"M", "O", "D", "E", "L", " ", "'", "a", "'", " ", "o", "r", " ", "'",
      "b", "'">>
MsgNoQuote  == <<"n", "o", " ", "s", "u", "c", "h", " ", "m", "o", "d", "e", "l">>
MsgOneQuote == <<"t", "h", "e", " ", "m", "o", "d", "e", "l", "'", "s", " ", "g", "o",
      "n", "e">>
MsgBad      == <<"b", "a", "d", " ", "'", "i", "n", "p", "u", "t", "'">>
Messages == { MsgGptX, MsgTwo, MsgNoQuote, MsgOneQuote, MsgBad, << >>, NoContent }

TypeFilter  == <<"C", "o", "n", "t", "e", "n", "t", "_", "F", "i", "l", "t", "e", "r">>
TypeInvalid == <<"i", "n", "v", "a", "l", "i", "d", "_", "r", "e", "q", "u", "e", "s",
      "t", "_", "e", "r", "r", "o", "r">>
Types == { TypeFilter, TypeInvalid, NoContent }

Codes == { "invalid_value", "ENOTFOUND", None }

Bodies ==
    { [ json |-> TRUE, shape |-> "nested", message |-> m, type |-> t, code |-> c ] :
        m \in Messages, t \in Types, c \in Codes }
    \cup { [ json |-> TRUE, shape |-> "flat", message |-> m, type |-> t,
             code |-> "invalid_value" ] : m \in { MsgBad, NoContent }, t \in Types }
    \cup { [ json |-> TRUE, shape |-> "string", message |-> m, type |-> NoContent,
             code |-> None ] : m \in { MsgGptX, MsgBad } }
    \cup { [ json |-> FALSE, shape |-> "none", message |-> NoContent,
             type |-> NoContent, code |-> None ],
           [ json |-> TRUE, shape |-> "null", message |-> NoContent,
             type |-> NoContent, code |-> None ] }

KeyRetryAfter == <<"R", "e", "t", "r", "y", "-", "A", "f", "t", "e", "r">>
KeyRETRYAFTER == <<"R", "E", "T", "R", "Y", "-", "A", "F", "T", "E", "R">>
KeyOther      == <<"X", "-", "R", "e", "q", "u", "e", "s", "t", "-", "I", "d">>
Val60     == <<"6", "0">>
Val60s    == <<" ", "6", "0", "s">>
ValMinus  == <<"-", "5">>
ValSoon   == <<"s", "o", "o", "n">>
ValDate   == <<"W", "e", "d", ",", " ", "2", "1", " ", "O", "c", "t">>

HeaderEntries ==
    { << >>,
      << <<KeyOther, Val60>> >> }
    \cup { << <<k, v>> >> :
             k \in { STR_retry_after, KeyRetryAfter, KeyRETRYAFTER },
             v \in { Val60, Val60s, ValMinus, ValSoon, ValDate, << >> } }
    \cup { << <<KeyRetryAfter, ValSoon>>, <<STR_retry_after, Val60>> >> }

HeaderInputs ==
    { NoHeaders } \cup { [ present |-> TRUE, entries |-> e ] : e \in HeaderEntries }

Statuses == { 200, 302, 400, 401, 403, 429, 500, 503 }

\* response.ok
Ok(status) == status \in 200 .. 299

Responses ==
    { [ status |-> st, headers |-> h, body |-> b ] :
        st \in Statuses, h \in HeaderInputs, b \in Bodies }

MsgFetchFailed == <<"f", "e", "t", "c", "h", " ", "f", "a", "i", "l", "e", "d">>

\* An error that is not an HAIError (of the transport, of the runtime)
ForeignError(name, code) ==
    [ MkError(name, FALSE, MsgFetchFailed, Undefined, NoHeaders)
        EXCEPT !.code = code ]

\* The values null and undefined thrown as they are: they have no fields,
\* and reading one of them throws
ThrownNull ==
    [ MkError(None, FALSE, NoContent, Undefined, NoHeaders) EXCEPT !.name = "null" ]
ThrownUndefined == MkError(None, FALSE, NoContent, Undefined, NoHeaders)

\* What the awaited fetch can reject with: the abort of the controller (the
\* timer of request() fired, the caller's signal aborted), a refused
\* connection, a failed name lookup, any other failure, a fetch
\* implementation that rejects with null or undefined
FetchErrors ==
    { ForeignError("AbortError", None),
      ForeignError("Error", "ECONNREFUSED"),
      ForeignError("Error", "ENOTFOUND"),
      ForeignError("TypeError", None),
      ThrownNull,
      ThrownUndefined }

\* What the awaited response.json() of a successful response can reject with
BodyErrors ==
    { ForeignError("SyntaxError", None), ForeignError("AbortError", None),
      ThrownNull, ThrownUndefined }

\* The message of the TypeError that reading error.name throws when the
\* error is the value named (null, undefined)
STR_CannotReadNameOf(value) ==
    <<"C", "a", "n", "n", "o", "t", " ", "r", "e", "a", "d", " ", "p", "r",
      "o", "p", "e", "r", "t", "i", "e", "s", " ", "o", "f", " ">>
    \o value \o
    <<" ", "(", "r", "e", "a", "d", "i", "n", "g", " ", "'", "n", "a", "m",
      "e", "'", ")">>

\* The catch block of request(): what it throws for the error it caught.
\* For a caught null or undefined, its first test, of error.name, throws
\* TypeError inside the catch block and that TypeError is what request()
\* rejects with.
Catch(error) ==
    IF error = ThrownNull
    THEN MkError("TypeError", FALSE, STR_CannotReadNameOf(<<"n", "u", "l", "l">>),
                 Undefined, NoHeaders)
    ELSE IF error = ThrownUndefined
    THEN MkError("TypeError", FALSE, STR_CannotReadNameOf(<<"u", "n", "d", "e", "f", "i", "n", "e", "d">>),
                 Undefined, NoHeaders)
    ELSE IF error.name = "AbortError" THEN TimeoutError(STR_TimedOut)
    ELSE IF error.code \in { "ECONNREFUSED", "ENOTFOUND" }
    THEN APIConnectionError(STR_ErrorConnecting \o error.message, TRUE)
    ELSE IF error.hai THEN error
    ELSE APIError(STR_ErrorCommunicating \o error.message, None, NoContent,
                  Undefined, NoHeaders)

\* Where request() stands once its catch block has thrown: it has settled;
\* nothing goes back to fetch (the variant retries what says shouldRetry)
AfterCatchRetry(error) == IF error.shouldRetry THEN "fresh" ELSE "done"
AfterCatch(error) == "done"

\* How many invocations of fetch the model follows
MaxFetches == 2

\* What Models.list() settles with once its request() has: the mapped ids of
\* an array body, no model for another body, the two hard-coded models when
\* request() rejected
ListOutcome(settled, isArray) ==
    IF settled.state = "rejected"
    THEN [ state |-> "resolved", models |-> "hard-coded", error |-> None ]
    ELSE [ state |-> "resolved",
           models |-> IF isArray THEN "mapped" ELSE "none", error |-> None ]

InitRequest ==
    /\ rqpc = "fresh"
    /\ reqStream = FALSE
    /\ response = NoResponse
    /\ classified = NoError
    /\ result = [ state |-> "pending", error |-> NoError ]
    /\ fetches = 0
    /\ listed = NoListed
    /\ text = <<>>
    /\ pos = 0
    /\ emittedAt = <<>>
    /\ visible = <<>>
    /\ carried = FALSE
    /\ fstate = InitFilterState
    /\ inChunks = <<>>
    /\ outChunks = <<>>
    /\ ended = FALSE
    /\ StreamIdle
    /\ SideIdle

\* What JSON.stringify(data) can throw while the arguments of fetch are
\* built: TypeError for a circular structure or a BigInt, and whatever a
\* toJSON() of the data throws: any error, one named AbortError, one with
\* the code of a connection failure, an HAIError, null
StringifyErrors ==
    { ForeignError("TypeError", None),
      ForeignError("RangeError", None),
      ForeignError("AbortError", None),
      ForeignError("Error", "ECONNREFUSED"),
      ForeignError("Error", "ENOTFOUND"),
      HAIError(MsgBad),
      ThrownNull,
      ThrownUndefined }

\* request(method, path, data, { stream }): the timer is armed, the body is
\* serialised and fetch is invoked and awaited.  Data that JSON.stringify
\* cannot serialise makes it throw inside the try before fetch is invoked:
\* the catch block maps the error and request() has settled.
SendRequest ==
    /\ rqpc = "fresh"
    /\ fetches < MaxFetches
    /\ reqStream' \in BOOLEAN
    /\ \/ /\ rqpc' = "fetch"
          /\ fetches' = fetches + 1
          /\ UNCHANGED result
       \/ \E e \in StringifyErrors :
             /\ result' = [ state |-> "rejected", error |-> Catch(e) ]
             /\ rqpc' = AfterCatch(Catch(e))
             /\ UNCHANGED fetches
    /\ UNCHANGED <<response, classified, listed, restVars>>

\* fetch resolves with a response; the timer is cleared.  A response that is
\* not ok goes to handleErrorResponse; a stream response is returned as it
\* is; otherwise its body is awaited.
FetchResolves ==
    /\ rqpc = "fetch"
    /\ \E resp \in Responses :
         /\ response' = resp
         /\ IF ~Ok(resp.status)
            THEN rqpc' = "errorBody" /\ UNCHANGED result
            ELSE IF reqStream
            THEN /\ rqpc' = "done"
                 /\ result' = [ state |-> "resolved", error |-> NoError ]
            ELSE rqpc' = "body" /\ UNCHANGED result
    /\ UNCHANGED <<reqStream, classified, callVars, restVars>>

\* fetch rejects: the catch block maps the error.
FetchRejects ==
    /\ rqpc = "fetch"
    /\ \E e \in FetchErrors :
         /\ result' = [ state |-> "rejected", error |-> Catch(e) ]
         /\ rqpc' = AfterCatch(Catch(e))
    /\ UNCHANGED <<reqStream, response, classified, callVars, restVars>>

\* handleErrorResponse: the body is read (or not readable), the error is
\* chosen and thrown; the catch block of request() receives it.
ErrorResponse ==
    /\ rqpc = "errorBody"
    /\ \E e \in { handleErrorResponse(response) } :
         /\ classified' = e
         /\ result' = [ state |-> "rejected", error |-> Catch(e) ]
         /\ rqpc' = AfterCatch(Catch(e))
    /\ UNCHANGED <<reqStream, response, callVars, restVars>>

\* response.json() of a successful response resolves.
BodyResolves ==
    /\ rqpc = "body"
    /\ result' = [ state |-> "resolved", error |-> NoError ]
    /\ rqpc' = "done"
    /\ UNCHANGED <<reqStream, response, classified, callVars, restVars>>

\* response.json() of a successful response rejects.
BodyRejects ==
    /\ rqpc = "body"
    /\ \E e \in BodyErrors :
         /\ result' = [ state |-> "rejected", error |-> Catch(e) ]
         /\ rqpc' = AfterCatch(Catch(e))
    /\ UNCHANGED <<reqStream, response, classified, callVars, restVars>>

\* Models.list(): the request() it awaited (not a stream; its data, {},
\* was serialised and fetch invoked) has settled and so does list().
ListSettles ==
    /\ rqpc = "done"
    /\ ~reqStream
    /\ fetches = 1
    /\ listed.state = "pending"
    /\ \E isArray \in BOOLEAN : listed' = ListOutcome(result, isArray)
    /\ UNCHANGED <<rqpc, reqStream, response, classified, result, fetches, restVars>>

NextRequest ==
    \/ SendRequest
    \/ ListSettles
    \/ FetchResolves
    \/ FetchRejects
    \/ ErrorResponse
    \/ BodyResolves
    \/ BodyRejects

SpecRequest == InitRequest /\ [][NextRequest]_vars

-----------------------------------------------------------------------------
(* Reference notions used by the properties *)

\* The positions of t that lie in a recognised open tag, in the block after
\* it, or in the close tag that ends the block, by a left-to-right parse of
\* the whole text (mode is "plain", "think" or "ser").
RECURSIVE HiddenFrom(_, _, _)
HiddenFrom(t, i, mode) ==
    IF i > Len(t) THEN {}
    ELSE LET rest == SubSeq(t, i, Len(t))
             open == IF StartsWith(rest, THINK_OPEN) THEN "think"
                     ELSE IF StartsWith(rest, SER_OPEN) THEN "ser" ELSE "plain"
             openTag  == IF open = "think" THEN THINK_OPEN ELSE SER_OPEN
             closeTag == IF mode = "think" THEN THINK_CLOSE ELSE SER_CLOSE
         IN  IF mode = "plain"
             THEN IF open = "plain" THEN HiddenFrom(t, i + 1, "plain")
                  ELSE (i .. i + Len(openTag) - 1)
                       \cup HiddenFrom(t, i + Len(openTag), open)
             ELSE IF StartsWith(rest, closeTag)
                  THEN (i .. i + Len(closeTag) - 1)
                       \cup HiddenFrom(t, i + Len(closeTag), "plain")
                  ELSE {i} \cup HiddenFrom(t, i + 1, mode)

Hidden(t) == HiddenFrom(t, 1, "plain")

\* chunks is the single-choice stream (index 0, no metadata) of the fragments
IsFragmentStream(chunks, frags) ==
    /\ Len(chunks) = Len(frags)
    /\ \A n \in 1 .. Len(frags) :
         chunks[n].choices = << MkChoice(0, frags[n], None, None) >>

IsIndex(c, i) == c.index = i

\* the chunks with only their choices of index i
OnlyIndex(chunks, i) ==
    [ n \in 1 .. Len(chunks) |->
        [ chunks[n] EXCEPT !.choices = SelectSeq(@, LAMBDA c : IsIndex(c, i)) ] ]

OutIds == { outChunks[m].id : m \in 1 .. Len(outChunks) }

\* handleStreamResponse on the lines of one read, from first to last: the
\* chunks yielded and how the lines ended ("more": all lines used up)
AfterLine(acc, r) ==
    IF r.kind = "skip" THEN acc
    ELSE IF r.kind = "yield"
    THEN [ chunks |-> Append(acc.chunks, r.chunk), kind |-> "more" ]
    ELSE IF r.kind = "return" THEN [ chunks |-> acc.chunks, kind |-> "sentinel" ]
    ELSE [ chunks |-> acc.chunks, kind |-> "decode" ]

RECURSIVE FrameLines(_, _)
FrameLines(ls, acc) ==
    IF ls = <<>> \/ acc.kind # "more" THEN acc
    ELSE FrameLines(Tail(ls), AfterLine(acc, FrameLine(Head(ls))))

WholeResult(r) ==
    [ chunks |-> r.chunks, kind |-> IF r.kind = "more" THEN "end" ELSE r.kind ]

\* handleStreamResponse when the whole body arrives in a single read
FrameWhole(w) ==
    WholeResult(FrameLines(SplitLines(Decode(<<>>, w).chars),
                           [ chunks |-> <<>>, kind |-> "more" ]))

\* The lines of the body, and its `data: ` lines that precede the sentinel
WireLines(w) == SplitLines(Decode(<<>>, w).chars)

RECURSIVE DataLinesBefore(_)
DataLinesBefore(ls) ==
    IF ls = <<>> \/ Head(ls) = DONE_LINE THEN <<>>
    ELSE IF StartsWith(Head(ls), DATA_PREFIX)
    THEN << Head(ls) >> \o DataLinesBefore(Tail(ls))
    ELSE DataLinesBefore(Tail(ls))

AllDecodable(ls) ==
    \A n \in 1 .. Len(ls) : ParseJSON(Slice(ls[n], DataPrefixLen)).ok

ChunkOfLine(l) == Normalize(ParseJSON(Slice(l, DataPrefixLen)).data)

\* The envelope the server sent, as the claims speak of it: its message
\* (none when the body is not JSON), its type and its code
EnvMessage ==
    IF response.body.json /\ Truthy(response.body.message)
    THEN response.body.message ELSE << >>

EnvType == IF response.body.json THEN response.body.type ELSE NoContent

EnvCode == IF response.body.json THEN response.body.code ELSE None

MentionsModel == Includes(ToLowerCase(EnvMessage), STR_model)

\* request() has ended with handleErrorResponse having thrown
Thrown == rqpc = "done" /\ classified.name # None

\* request() has ended with handleErrorResponse having thrown the error it
\* selected for the status and the envelope
Classified == Thrown /\ classified.hai

\* The text between the first quote of m and the quote after it
HasQuoted(m) ==
    \E a \in 1 .. Len(m) : \E b \in (a + 1) .. Len(m) : m[a] = "'" /\ m[b] = "'"

FirstQuoted(m) ==
    LET a == CHOOSE i \in 1 .. Len(m) :
                 m[i] = "'" /\ \A j \in 1 .. (i - 1) : m[j] # "'"
        b == CHOOSE i \in (a + 1) .. Len(m) :
                 m[i] = "'" /\ \A j \in (a + 1) .. (i - 1) : m[j] # "'"
    IN  SubSeq(m, a + 1, b - 1)

\* The response headers named retry-after, in any letter case
RetryAfterEntries ==
    { n \in 1 .. Len(response.headers.entries) :
        ToLowerCase(response.headers.entries[n][1]) = STR_retry_after }

STR_gpt_x == <<"g", "p", "t", "-", "x">>

\* o is c but for delta.content
SameButContent(o, c) ==
    [o EXCEPT !.content = NoContent] = [c EXCEPT !.content = NoContent]

\* The choices os correspond, in order, to some of the choices cs
RECURSIVE Embeds(_, _)
Embeds(os, cs) ==
    \/ os = << >>
    \/ /\ os # << >>
       /\ cs # << >>
       /\ \/ SameButContent(Head(os), Head(cs)) /\ Embeds(Tail(os), Tail(cs))
          \/ Embeds(os, Tail(cs))

\* The locals of the filter when the n-th input chunk arrives, and when its
\* k-th choice is reached
StateBeforeChunk(n) ==
    FilterRun(InitFilterState, SubSeq(inChunks, 1, n - 1), <<>>).fs

StateBeforeChoice(fs, choices, k) ==
    FilterChoices(SubSeq(choices, 1, k - 1),
                  [ newChoices |-> <<>>, shouldYieldChunk |-> FALSE,
                    outputAt |-> <<>>, fs |-> fs ]).fs

\* The choice has text, all of which the filter withholds, and no
\* finish_reason
FiltersToNothing(fs, choice) ==
    /\ Truthy(choice.content)
    /\ choice.finish_reason = None
    /\ FilterContent(fs, choice.content).outputContent = <<>>

\* The choices of the n-th input chunk that filter to nothing
ChoicesFilteredAway(fs, choices) ==
    { k \in 1 .. Len(choices) :
        FiltersToNothing(StateBeforeChoice(fs, choices, k), choices[k]) }

TextOnly  == <<"t", "e", "x", "t">>
TextSpace == <<"t", "e", "x", "t", " ">>

-----------------------------------------------------------------------------
(* Properties *)

\* C1: for a single-choice stream, the text emitted so far depends only on
\* the text delivered so far, not on how it was cut into fragments: it is
\* what the filter emits when that text arrives as one fragment.
C1_RechunkInvariant ==
    pos > 0 =>
        visible = VisibleOf(FilterChunk(InitFilterState,
                                TextChunk(SubSeq(text, 1, pos))).yielded, 0)

C1_Witness ==
    /\ ended /\ carried
    /\ text = HelloText
    /\ visible = HelloWorld

\* C2 (as claimed): with choices of several indices interleaved, the text
\* emitted for each index is what the filter emits when it is given only the
\* choices of that index.
C2_PerIndexState ==
    \A i \in {0, 1} :
        VisibleOf(outChunks, i)
            = VisibleOf(FilterRun(InitFilterState, OnlyIndex(inChunks, i), <<>>).out, i)

\* C3: no character of a recognised open tag, of the block after it or of
\* the close tag ending it is emitted; every emitted character is the input
\* character at its position (a whitespace character may be emitted as a
\* space).
C3_BlockNeverEmitted ==
    /\ Len(emittedAt) = Len(visible)
    /\ { emittedAt[j] : j \in 1 .. Len(emittedAt) } \cap Hidden(text) = {}
    /\ \A j \in 1 .. Len(emittedAt) :
         /\ emittedAt[j] \in 1 .. pos
         /\ \/ visible[j] = text[emittedAt[j]]
            \/ visible[j] = " " /\ IsSpaceChar(text[emittedAt[j]])

C3_Witness ==
    /\ ended
    /\ text = FuseBefore
    /\ visible = <<"a", " ", "b">>
    /\ emittedAt = <<1, 2, Len(FuseBefore)>>

\* C4: the fragments "Hello <thi", "nk>hidden</thi", "nk> world" give the
\* visible text "Hello world".
C4_HelloWorld ==
    IsFragmentStream(inChunks, <<HelloFrag1, HelloFrag2, HelloFrag3>>)
        => VisibleOf(outChunks, 0) = HelloWorld

C4_Witness ==
    /\ ended
    /\ IsFragmentStream(inChunks, <<HelloFrag1, HelloFrag2, HelloFrag3>>)
    /\ VisibleOf(outChunks, 0) = HelloWorld

\* C5 (as claimed): the stream ["text <thi"], then end of stream, gives
\* exactly the visible text "text".
C5_ExactlyText ==
    (ended /\ IsFragmentStream(inChunks, <<TextThi>>))
        => VisibleOf(outChunks, 0) = TextOnly

\* C6 (as claimed): two visible non-whitespace characters with a removed
\* block between them, and whitespace of the input between them on either
\* side of the block, are not emitted next to each other.
C6_NoFusion ==
    \A j \in 1 .. Len(visible) - 1 :
        LET between == (emittedAt[j] + 1) .. (emittedAt[j + 1] - 1) IN
        ( /\ ~IsSpaceChar(visible[j])
          /\ ~IsSpaceChar(visible[j + 1])
          /\ between \cap Hidden(text) # {}
          /\ \E p \in between \ Hidden(text) : IsSpaceChar(text[p]) )
        => FALSE

\* C7: every input choice that carries a finish_reason is in an emitted
\* chunk (the one of its input chunk) with that finish_reason.
C7_FinishReasonKept ==
    \A n \in 1 .. Len(inChunks) :
        \A k \in 1 .. Len(inChunks[n].choices) :
            LET c == inChunks[n].choices[k] IN
            c.finish_reason # None =>
                \E m \in 1 .. Len(outChunks) :
                    /\ outChunks[m].id = inChunks[n].id
                    /\ \E j \in 1 .. Len(outChunks[m].choices) :
                         /\ outChunks[m].choices[j].index = c.index
                         /\ outChunks[m].choices[j].finish_reason = c.finish_reason

C7_Witness ==
    \E m \in 1 .. Len(outChunks) :
        \E j \in 1 .. Len(outChunks[m].choices) :
            LET o == outChunks[m].choices[j]
                i == inChunks[outChunks[m].id].choices
            IN  /\ o.content = NoContent
                /\ o.finish_reason = "length"
                /\ \E k \in 1 .. Len(i) :
                     i[k].index = o.index /\ i[k].content = <<"<", "t", "h">>

\* C8: the emitted chunks are a subsequence of the input chunks (same id,
\* created, model, in the same order, none twice, the choices of an emitted
\* chunk all from its input chunk); a chunk is suppressed only when each of
\* its choices had content that filtered to no text and no finish_reason.
C8_Subsequence ==
    /\ \A m \in 1 .. Len(outChunks) :
         \E n \in 1 .. Len(inChunks) :
            /\ outChunks[m].id = inChunks[n].id
            /\ outChunks[m].created = inChunks[n].created
            /\ outChunks[m].model = inChunks[n].model
            /\ Len(outChunks[m].choices) <= Len(inChunks[n].choices)
            /\ \A j \in 1 .. Len(outChunks[m].choices) :
                 \E k \in 1 .. Len(inChunks[n].choices) :
                    /\ outChunks[m].choices[j].index = inChunks[n].choices[k].index
                    /\ outChunks[m].choices[j].role = inChunks[n].choices[k].role
    /\ \A m1, m2 \in 1 .. Len(outChunks) :
         m1 < m2 => outChunks[m1].id < outChunks[m2].id
    /\ \A n \in 1 .. Len(inChunks) :
         inChunks[n].id \notin OutIds =>
            ChoicesFilteredAway(StateBeforeChunk(n), inChunks[n].choices)
                = 1 .. Len(inChunks[n].choices)

C8_Witness ==
    /\ Len(inChunks) = 3
    /\ inChunks[2].choices # << >>
    /\ Len(outChunks) = 2
    /\ outChunks[1].id = 1
    /\ outChunks[2].id = 3

\* C9 (as claimed): the chunks handleStreamResponse produces, and the way
\* it ends, depend only on the text of the body and not on where the reads
\* cut it: they are those of the body read in one piece.
C9_ReadSplitInvariant ==
    exitKind \in {"end", "sentinel", "decode"} =>
        /\ framed = FrameWhole(wire).chunks
        /\ exitKind = FrameWhole(wire).kind

\* C10: once the sequence has ended, by whichever way (end of the body, the
\* sentinel, a decode error, a failed read, the consumer stopping, with or
\* without the filter around the framer), the reader is not held.
C10_ReaderReleased ==
    /\ spc = "done" => ~readerHeld
    /\ fpc = "done" => spc = "done" /\ ~readerHeld
    /\ readerHeld => spc \in {"await", "lines", "yield"}

C10_Witness ==
    /\ hideThink
    /\ fpc = "done"
    /\ exitKind = "return"
    /\ nreads > 0
    /\ outChunks # <<>>
    /\ ~readerHeld

\* C11 (as claimed): a `data: ` line whose payload is not JSON ends the
\* sequence with an error of the kind StreamDecodeError, the chunks of the
\* lines before it having been yielded and none after it.
C11_StreamDecodeError ==
    exitKind = "decode" =>
        /\ spc = "done"
        /\ thrown.name = "StreamDecodeError"

\* C12: once the framer reads a line equal to the sentinel it ends the
\* sequence at that line, and from then on no chunk is yielded, by the
\* framer or by the filter around it, whatever lines follow in the same
\* read and whatever the body still holds.
C12_NothingAfterSentinel ==
    [][ /\ (spc = "lines" /\ lines # <<>> /\ Trim(Head(lines)) = DONE_LINE)
           => (spc' = "done" /\ exitKind' = "sentinel" /\ framed' = framed)
        /\ exitKind = "sentinel"
           => (framed' = framed /\ outChunks' = outChunks /\ spc' = "done")
      ]_vars

C12_Witness ==
    /\ exitKind = "sentinel"
    /\ Len(framed) = 1
    /\ Len(lines) >= 2
    /\ lines[2] = LineChoice

\* C13 (as claimed): when every `data: ` line of the body that precedes the
\* sentinel is decodable, the sequence ends having yielded exactly the
\* chunks of those lines, one per line, in their order in the body.
C13_OnePerDataLine ==
    (exitKind \in {"end", "sentinel", "decode"}
        /\ AllDecodable(DataLinesBefore(WireLines(wire))))
    => /\ exitKind # "decode"
       /\ Len(framed) = Len(DataLinesBefore(WireLines(wire)))
       /\ \A n \in 1 .. Len(framed) :
            framed[n] = ChunkOfLine(DataLinesBefore(WireLines(wire))[n])

\* C14 (as claimed): a read that is cancelled by the timeout (the abort of
\* the request) ends the sequence with a TimeoutError.
C14_TimeoutError ==
    thrown.cause = "AbortError" => thrown.name = "TimeoutError"

\* C15: the error handleErrorResponse throws for a response that is not ok
\* is of the kind of the first row that matches: 401, 400 with a message
\* that mentions 'model', another 400, 429, 503, 500 and above, a type that
\* mentions content_filter, and otherwise APIError with the code and the
\* type of the envelope.
C15_FirstMatchingRow ==
    Classified =>
        LET st == response.status
            n  == classified.name
            contentFilter == Truthy(EnvType) /\ response.body.shape # "string"
                             /\ Includes(ToLowerCase(EnvType), STR_content_filter)
        IN  /\ st = 401 => n = "InvalidAPIKeyError"
            /\ (st = 400 /\ MentionsModel) => n = "InvalidModelError"
            /\ (st = 400 /\ ~MentionsModel) => n = "InvalidRequestError"
            /\ st = 429 => n = "TooManyRequestsError"
            /\ st = 503 => n = "ServiceUnavailableError"
            /\ (st >= 500 /\ st # 503) => n = "ServerError"
            /\ (st \notin {400, 401, 429} /\ st < 500 /\ contentFilter)
                    => n = "ContentFilterError"
            /\ (st \notin {400, 401, 429} /\ st < 500 /\ ~contentFilter)
                    => /\ n = "APIError"
                       /\ response.body.shape # "string"
                            => (classified.code = EnvCode /\ classified.type = EnvType)

C15_Witness ==
    /\ Classified
    /\ response.status = 503
    /\ response.body.type = TypeFilter
    /\ classified.name = "ServiceUnavailableError"

\* C16 (as claimed): the error handleErrorResponse threw is the error
\* request() rejects with, unchanged.
C16_SurfacedUnmodified ==
    Classified => (result.state = "rejected" /\ result.error = classified)

\* C17: for status 429, a retry-after header of value 60, its name in any
\* letter case, gives retryAfter = 60, and no retry-after header gives
\* retryAfter undefined.
C17_RetryAfter ==
    (Classified /\ response.status = 429) =>
        /\ classified.name = "TooManyRequestsError"
        /\ (\E n \in RetryAfterEntries :
                /\ RetryAfterEntries = {n}
                /\ response.headers.entries[n][2] = Val60)
              => classified.retryAfter = Num(60)
        /\ RetryAfterEntries = {} => classified.retryAfter = Undefined

C17_Witness ==
    /\ Classified
    /\ response.status = 429
    /\ response.headers.entries = << <<KeyRETRYAFTER, Val60>> >>
    /\ classified.retryAfter = Num(60)

\* C18 (as claimed): for status 429, a retry-after header whose value is
\* not a number of seconds gives retryAfter undefined.
C18_UnparsableAbsent ==
    (Classified /\ response.status = 429) =>
        \A n \in RetryAfterEntries :
            (RetryAfterEntries = {n}
                /\ response.headers.entries[n][2] \in {ValSoon, ValDate, << >>})
            => classified.retryAfter = Undefined

\* C19: for status 400 and a message that mentions a model the error is an
\* InvalidModelError with param 'model' that names the first single-quoted
\* part of the message (gpt-x for "Model 'gpt-x' not found"), or 'Unknown
\* model' when the message has no quoted part.
C19_ModelNamed ==
    (Classified /\ response.status = 400 /\ MentionsModel) =>
        /\ classified.name = "InvalidModelError"
        /\ classified.param = STR_model
        /\ classified.message =
              STR_ModelQuote
              \o (IF HasQuoted(EnvMessage) THEN FirstQuoted(EnvMessage)
                  ELSE STR_UnknownModel)
              \o STR_NotFound
        /\ EnvMessage = MsgGptX
              => classified.message = STR_ModelQuote \o STR_gpt_x \o STR_NotFound

C19_Witness ==
    /\ Classified
    /\ response.status = 400
    /\ EnvMessage = MsgGptX
    /\ classified.name = "InvalidModelError"
    /\ classified.message = STR_ModelQuote \o STR_gpt_x \o STR_NotFound

\* C20 (as claimed): for status 400 and a message that does not mention a
\* model, the InvalidRequestError carries the code of the envelope when the
\* envelope has one.
C20_CarriesCode ==
    (Classified /\ response.status = 400 /\ ~MentionsModel
        /\ response.body.shape # "string" /\ EnvCode # None)
    => /\ classified.name = "InvalidRequestError"
       /\ classified.code = EnvCode

\* C21 (as claimed): for every error body handleErrorResponse derives the
\* envelope and throws the error selected for it, never another error; the
\* message is that of an object-valued error, the string of a string-valued
\* error, the top-level message of a body without error, and a generic
\* message when the body is not JSON or the message is missing or empty;
\* a string-valued error gives no type and no code.
C21_EnvelopeDerived ==
    Thrown =>
        /\ classified.hai
        /\ classified.name \in {"ServerError", "APIError"} =>
              /\ classified.message =
                    IF ~response.body.json THEN STR_UnknownOccurred
                    ELSE IF Truthy(response.body.message)
                    THEN response.body.message ELSE STR_UnknownError
              /\ classified.name = "APIError" =>
                    /\ classified.type = EnvType
                    /\ classified.code = EnvCode

\* C22: a choice without text (delta.content absent or empty) is in an
\* emitted chunk, the one of its input chunk, exactly as it came in,
\* whatever block the filter was in.
C22_NoContentPassesThrough ==
    \A n \in 1 .. Len(inChunks) :
        \A k \in 1 .. Len(inChunks[n].choices) :
            ~Truthy(inChunks[n].choices[k].content) =>
                \E m \in 1 .. Len(outChunks) :
                    /\ outChunks[m].id = inChunks[n].id
                    /\ \E j \in 1 .. Len(outChunks[m].choices) :
                         outChunks[m].choices[j] = inChunks[n].choices[k]

C22_Witness ==
    /\ Len(inChunks) = 3
    /\ inChunks[1].choices = << MkChoice(0, THINK_OPEN \o <<"x">>, None, None) >>
    /\ inChunks[2].choices = << ToolCallOnly >>
    /\ inChunks[3].choices = << MkChoice(0, << >>, None, None) >>
    /\ fstate.isReasoning
    /\ Len(outChunks) = 2
    /\ outChunks[1].choices = << ToolCallOnly >>
    /\ outChunks[2].choices = inChunks[3].choices

\* C23: every emitted chunk has the id, created, model and
\* system_fingerprint of its input chunk, and its choices are, in order,
\* choices of that chunk with every field but delta.content unchanged.
C23_MetadataCopied ==
    \A m \in 1 .. Len(outChunks) :
        \E n \in 1 .. Len(inChunks) :
            /\ outChunks[m].id = inChunks[n].id
            /\ outChunks[m].created = inChunks[n].created
            /\ outChunks[m].model = inChunks[n].model
            /\ outChunks[m].system_fingerprint = inChunks[n].system_fingerprint
            /\ Embeds(outChunks[m].choices, inChunks[n].choices)

C23_Witness ==
    \E m \in 1 .. Len(outChunks) :
        /\ outChunks[m].model = "m2"
        /\ outChunks[m].system_fingerprint = "fp"
        /\ outChunks[m].choices =
              << [ WithMetadata EXCEPT !.content = <<"b">> ] >>

\* The text holds a word broken by a hyphen at a line wrap
HasHyphenWrap(t) ==
    \E i \in 1 .. Len(t) : HyphenWrapAt(t, i, RunEnd(t, i + 2, WhiteSpace))

\* The text holds a complete span: an open tag and, after it, its close tag
HasSpan(t, open, close) ==
    \E i \in 1 .. Len(t) :
        TagAt(t, i, open) /\ ClosesFrom(t, i + Len(open), close) # {}

\* No whitespace at either end, no three newlines and no two spaces in a row
InNormalForm(t) ==
    /\ t # <<>> => ~IsSpaceChar(t[1]) /\ ~IsSpaceChar(t[Len(t)])
    /\ \A i \in 1 .. (Len(t) - 2) :
         ~(t[i] = "\n" /\ t[i + 1] = "\n" /\ t[i + 2] = "\n")
    /\ \A i \in 1 .. (Len(t) - 1) : ~(t[i] = " " /\ t[i + 1] = " ")

\* C24 (as claimed): for a text without a hyphen at a line wrap, the
\* filter of a completed message returns what a consumer of the filtered
\* stream has seen when the text came as one fragment and the stream ended.
C24_SameAsOneFragment ==
    (completion.done /\ ended /\ ~HasHyphenWrap(text)) =>
        completion.content = visible

\* C25 (as claimed): what filterThinkSerBlocks returns holds no complete
\* <think>...</think> span and no complete <ser>...</ser> span.
C25_NoSpanLeft ==
    completion.done =>
        /\ ~HasSpan(completion.content, THINK_OPEN, THINK_CLOSE)
        /\ ~HasSpan(completion.content, SER_OPEN, SER_CLOSE)

\* C26: what filterThinkSerBlocks returns is in normal form: no whitespace
\* at its start or end, no run of 3 newlines, no run of 2 spaces.
C26_NormalForm ==
    completion.done => InNormalForm(completion.content)

C26_Witness ==
    /\ completion.done
    /\ text = Unnormalised
    /\ completion.content = <<"a", " ", "\n", "\n", " ", "b">>

\* The text holds none of the four tags
TagFree(t) ==
    \A i \in 1 .. Len(t) :
        \A tag \in { THINK_OPEN, THINK_CLOSE, SER_OPEN, SER_CLOSE } : ~TagAt(t, i, tag)

\* The characters of the text that are not whitespace, in order
RECURSIVE NonSpace(_)
NonSpace(t) ==
    IF t = <<>> THEN <<>>
    ELSE (IF IsSpaceChar(Head(t)) THEN <<>> ELSE << Head(t) >>) \o NonSpace(Tail(t))

\* Whitespace-normalised as the stream normalises: no whitespace at the
\* start, no whitespace but newline and space, no three newlines and no
\* two spaces in a row
StreamNormal(t) ==
    /\ t # <<>> => ~IsSpaceChar(t[1])
    /\ \A i \in 1 .. Len(t) : IsSpaceChar(t[i]) => t[i] \in {" ", "\n"}
    /\ \A i \in 1 .. (Len(t) - 2) :
         ~(t[i] = "\n" /\ t[i + 1] = "\n" /\ t[i + 2] = "\n")
    /\ \A i \in 1 .. (Len(t) - 1) : ~(t[i] = " " /\ t[i + 1] = " ")

\* What a consumer sees of a stream whose one fragment is t
OneFragment(t) ==
    IF t = <<>> THEN <<>>
    ELSE VisibleOf(FilterChunk(InitFilterState, TextChunk(t)).yielded, 0)

\* C27 (as claimed): for a text without any of the four tags the stream's
\* output is the text whitespace-normalised (its visible characters, in
\* normal form), a normalised text comes out unchanged, and filtering the
\* output again gives the output.
C27_TagFreeNormalised ==
    (ended /\ TagFree(text)) =>
        /\ NonSpace(visible) = NonSpace(text)
        /\ StreamNormal(visible)
        /\ StreamNormal(text) => visible = text
        /\ OneFragment(visible) = visible

\* C28: the text emitted for a single-choice stream never holds three
\* newlines in a row, however the text is cut into fragments and whatever
\* blocks are removed from it; "a\n\n\n\nb" gives "a\n\nb".
C28_NewlineRunCapped ==
    /\ \A i \in 1 .. (Len(visible) - 2) :
         ~(visible[i] = "\n" /\ visible[i + 1] = "\n" /\ visible[i + 2] = "\n")
    /\ (ended /\ text = FourNewlines) => visible = <<"a", "\n", "\n", "b">>
    /\ (ended /\ text = NewlinesAroundBlock) => visible = <<"a", "\n", "\n", "b">>

C28_Witness ==
    /\ ended
    /\ text = FourNewlines
    /\ visible = <<"a", "\n", "\n", "b">>
    /\ fstate.consecutiveNewlines = 0

\* C29: the first character a filtered stream emits is not whitespace,
\* the stream counts as started exactly from that character on, and once
\* started it stays started.
C29_LeadingSuppressed ==
    /\ [](visible # <<>> => ~IsSpaceChar(visible[1]))
    /\ [](fstate.streamStarted <=> visible # <<>>)
    /\ [][fstate.streamStarted => fstate'.streamStarted]_vars

C29_Witness ==
    /\ ended
    /\ text = LeadingAfterBlock
    /\ visible = <<"a", " ", "b">>
    /\ fstate.streamStarted

\* The chunks of f that the filter of stream st has been resumed with: all
\* of them but the one still pending
Filtered(st, f) ==
    IF st.pending = << >> THEN f.chunks
    ELSE SubSeq(f.chunks, 1, Len(f.chunks) - 1)

\* Stream st stands where it would stand had it been consumed alone up to
\* the lines it has looked at: the lines framed from a fresh framer, their
\* chunks filtered from a fresh filter, the last of them pending if the
\* filter has not been resumed with it.
AloneResult(st, f, run) ==
    /\ st.pending # << >> =>
          /\ f.chunks # << >>
          /\ st.pending = << f.chunks[Len(f.chunks)] >>
          /\ f.kind = "more"
    /\ st.out = run.out
    /\ st.fs = run.fs
    /\ f.kind = "more" => st.exit \in {None, "end"}
    /\ f.kind # "more" => st.exit = f.kind
    /\ st.exit = "end" => st.at = Len(st.body)
    /\ st.thrown.name = IF f.kind = "decode" THEN "HAIError" ELSE None

AsAlone(st, f) ==
    AloneResult(st, f, FilterRun(InitFilterState, Filtered(st, f), <<>>))

\* C30: whatever the interleaving, each of two streams has emitted what it
\* emits alone, ends as it ends alone, and a payload that fails to decode
\* in one ends that one only.
C30_StreamsIsolated ==
    streams # NoStreams =>
        \A s \in 1 .. 2 :
            AsAlone(streams[s],
                    FrameLines(SubSeq(streams[s].body, 1, streams[s].at),
                               [ chunks |-> <<>>, kind |-> "more" ]))

C30_Witness ==
    /\ streams # NoStreams
    /\ streams[1].body = << LineText(THINK_OPEN), LineBad >>
    /\ streams[1].exit = "decode"
    /\ streams[1].fs.isReasoning
    /\ streams[2].body = << LineText(<<"a">>), LineText(<<"a">>) >>
    /\ streams[2].exit = "end"
    /\ VisibleOf(streams[2].out, 0) = <<"a", "a">>

\* C31 (as claimed): a `data: ` line whose payload is JSON always gives a
\* chunk: the sequence is ended by a decode error only for a payload that
\* is not JSON, never by the mapping of a decoded value.
C31_MappingNeverFails ==
    exitKind = "decode" => thrown.cause = "SyntaxError"

\* C32: without hideThink the filter is not there: the consumer's chunks
\* are the framer's, nothing is pulled through the filter, nothing is
\* suppressed or rewritten; with hideThink every chunk of the framer goes
\* through the filter, which yields what it yields for those chunks.
C32_FilterOnlyWhenAsked ==
    /\ ~hideThink =>
          /\ fpc = "off"
          /\ inChunks = <<>> /\ outChunks = <<>>
          /\ fstate = InitFilterState
          /\ ConsumerHasChunk <=> spc = "yield"
    /\ hideThink =>
          /\ \A n \in 1 .. Len(inChunks) : inChunks[n] = framed[n]
          /\ outChunks = FilterRun(InitFilterState, inChunks, <<>>).out
          /\ ConsumerHasChunk => outChunks # <<>> /\ Len(inChunks) = Len(framed)

C32_Witness ==
    /\ ~hideThink
    /\ wire = DATA_PREFIX \o PayloadContent(THINK_OPEN) \o <<"\n">>
    /\ ConsumerHasChunk
    /\ Len(framed) = 1
    /\ ContentOfChoices(framed[1].choices, 0) = THINK_OPEN

\* C33 (as claimed): without an apiKey option and without HAI_API_KEY the
\* constructor throws NoAPIKeyError; with either of them it gives a client,
\* whose key is the option's if there is one.
C33_KeyFromEitherSource ==
    client.pc = "done" =>
        /\ (client.options.apiKey = None /\ client.env = None)
              => client.made.pc = "threw" /\ client.made.thrown = "NoAPIKeyError"
        /\ (client.options.apiKey # None \/ client.env # None)
              => /\ client.made.pc = "constructed"
                 /\ client.made.apiKey =
                       IF client.options.apiKey # None
                       THEN client.options.apiKey ELSE client.env

\* C33 (amended): the constructor throws NoAPIKeyError exactly when neither
\* source gives a non-empty key; with a non-empty key and a fetch
\* implementation (options.fetch or the one found at load) it gives a
\* client whose key is the option's if that is non-empty, else the
\* environment's; with a key and no fetch implementation it throws Error.
C33_NonEmptyKeyAndFetch ==
    client.pc = "done" =>
        LET optKey == TruthyValue(client.options.apiKey)
            envKey == TruthyValue(client.env)
            fetch  == client.options.fetch \/ client.moduleFetch
        IN  /\ (~optKey /\ ~envKey)
                  => client.made.pc = "threw" /\ client.made.thrown = "NoAPIKeyError"
            /\ ((optKey \/ envKey) /\ fetch)
                  => /\ client.made.pc = "constructed"
                     /\ client.made.apiKey =
                           IF optKey THEN client.options.apiKey ELSE client.env
            /\ ((optKey \/ envKey) /\ ~fetch)
                  => client.made.pc = "threw" /\ client.made.thrown = "Error"

C33_Witness ==
    /\ client.pc = "done"
    /\ client.options.apiKey = "key-1"
    /\ client.env = "key-2"
    /\ client.made.pc = "constructed"
    /\ client.made.apiKey = "key-1"

\* C34 (as claimed): when the request made by Models.list() fails, list()
\* rejects, with the APIError or AuthenticationError the request gave.
C34_ListRejects ==
    (listed.state # "pending" /\ result.state = "rejected")
        => listed.state = "rejected" /\ listed.error = result.error.name

\* C35: whatever the outcome, request() has invoked fetch at most once: not
\* before it is called, once from the moment it awaits fetch, and never
\* again after it settled (not at all when the data could not be
\* serialised).
C35_FetchOnce ==
    /\ fetches <= 1
    /\ rqpc = "fresh" => fetches = 0
    /\ rqpc \in {"fetch", "errorBody", "body"} => fetches = 1
    /\ (rqpc = "done" /\ (result.state = "resolved" \/ response # NoResponse))
          => fetches = 1
    /\ (rqpc = "done" /\ fetches = 0) =>
          /\ result.state = "rejected"
          /\ response = NoResponse

C35_Witness ==
    /\ rqpc = "done"
    /\ result.state = "rejected"
    /\ result.error.name = "APIConnectionError"
    /\ result.error.shouldRetry
    /\ fetches = 1

\* C36 (as claimed): every rejection of request() is an HAIError: the
\* error the classifier chose when a non-success status was classified,
\* APIError when the classifier itself failed, and otherwise TimeoutError,
\* APIConnectionError with shouldRetry, or APIError.
C36_RejectionsByCause ==
    result.state = "rejected" =>
        /\ result.error.hai
        /\ (classified # NoError /\ classified.hai) => result.error = classified
        /\ (classified # NoError /\ ~classified.hai)
              => result.error.name = "APIError"
        /\ classified = NoError =>
              \/ result.error.name \in { "TimeoutError", "APIError" }
              \/ /\ result.error.name = "APIConnectionError"
                 /\ result.error.shouldRetry

\* C37: the choices of an input chunk that have text, filter to no text and
\* carry no finish_reason are left out of the output, whatever role,
\* tool_calls or function_call their delta carries: the chunk emitted for
\* that input chunk has that many choices fewer, and when all of its choices
\* are left out no chunk is emitted for it.
C37_EmptyFilteredOmitted ==
    \A n \in 1 .. Len(inChunks) :
        \A away \in { ChoicesFilteredAway(StateBeforeChunk(n), inChunks[n].choices) } :
            away # {} =>
                /\ \A m \in 1 .. Len(outChunks) :
                      outChunks[m].id = inChunks[n].id =>
                          /\ Len(outChunks[m].choices)
                                = Len(inChunks[n].choices) - Cardinality(away)
                          /\ Embeds(outChunks[m].choices, inChunks[n].choices)
                /\ Cardinality(away) = Len(inChunks[n].choices) =>
                      \A m \in 1 .. Len(outChunks) : outChunks[m].id # inChunks[n].id

C37_Witness ==
    /\ Len(inChunks) = 2
    /\ inChunks[1].choices = << MkChoice(0, <<"a">>, None, None),
                                [ MetadataInBlock EXCEPT !.index = 1 ] >>
    /\ inChunks[2].choices = << MetadataInBlock >>
    /\ Len(outChunks) = 1
    /\ outChunks[1].id = inChunks[1].id
    /\ outChunks[1].choices = << MkChoice(0, <<"a">>, None, None) >>

\* C38 (as claimed): the text emitted so far for a single-choice stream
\* never holds two adjacent spaces.
C38_NoAdjacentSpaces ==
    \A i \in 1 .. Len(visible) - 1 : ~(visible[i] = " " /\ visible[i + 1] = " ")

\* p is a proper prefix of the tag
ProperPrefix(p, tag) == Len(p) < Len(tag) /\ StartsWith(tag, p)

\* The tag occurs in the text
Occurs(t, tag) == \E i \in 1 .. Len(t) : TagAt(t, i, tag)

\* C39: after each fragment the carry-over buffer is empty or a proper
\* prefix of a tag the filter waits for in its state (an open tag outside a
\* block, </think> in a reasoning block, </ser> in a structured block); it
\* holds at most 7 characters, they are the last characters delivered, and
\* every emitted character lies before them.
C39_CarryIsPartialTag ==
    /\ Len(fstate.buffer) <= 7
    /\ fstate.buffer # <<>> =>
          IF fstate.isReasoning THEN ProperPrefix(fstate.buffer, THINK_CLOSE)
          ELSE IF fstate.isSer THEN ProperPrefix(fstate.buffer, SER_CLOSE)
          ELSE \/ ProperPrefix(fstate.buffer, THINK_OPEN)
               \/ ProperPrefix(fstate.buffer, SER_OPEN)
    /\ Len(fstate.buffer) <= pos
    /\ fstate.buffer = SubSeq(text, pos - Len(fstate.buffer) + 1, pos)
    /\ \A j \in 1 .. Len(emittedAt) : emittedAt[j] <= pos - Len(fstate.buffer)

C39_Witness ==
    /\ text = <<"a">> \o THINK_OPEN \o THINK_CLOSE
    /\ pos = Len(text) - 1
    /\ visible = <<"a">>
    /\ fstate.isReasoning
    /\ fstate.buffer = SubSeq(THINK_CLOSE, 1, 7)

\* What the scan of a step looks at: the carry-over buffer and the fragment
ScannedNow == SubSeq(text, pos - Len(fstate.buffer) + 1, pos')

\* C40: isReasoning and isSer are never both set; a block is left only when
\* its own close tag was scanned, and until then nothing is emitted and no
\* other block is entered, whatever open tag the block holds.
C40_BlocksDoNotNest ==
    /\ [](~(fstate.isReasoning /\ fstate.isSer))
    /\ [][ /\ (fstate.isReasoning /\ ~Occurs(ScannedNow, THINK_CLOSE))
                => (fstate'.isReasoning /\ ~fstate'.isSer /\ visible' = visible)
           /\ (fstate.isSer /\ ~Occurs(ScannedNow, SER_CLOSE))
                => (fstate'.isSer /\ ~fstate'.isReasoning /\ visible' = visible)
         ]_vars

C40_Witness ==
    /\ text = THINK_OPEN \o SER_OPEN \o SER_CLOSE
    /\ pos = Len(text)
    /\ fstate.isReasoning
    /\ ~fstate.isSer
    /\ visible = <<>>

=============================================================================
